---- MODULE Spec2Model ----
(***************************************************************************)
(* Verification model of mohak.tui (SSH TUI portfolio server).             *)
(*                                                                         *)
(*  - SessionCounter (cmd main): the per-IP admission registry and the     *)
(*    rate limiting middleware that wraps every SSH session handler.       *)
(*  - app.Model (internal/app/model.go): the Bubble Tea session model and  *)
(*    the chat streaming pipeline (worker goroutine, chunk channel, error  *)
(*    channel, listenForChunks command).                                   *)
(*                                                                         *)
(* The specifications share the variables:                                 *)
(*   SpecCounter    sequential calls of SessionCounter.Acquire / Release   *)
(*   SpecAdmission  concurrent middleware handlers; SessionCounter has no  *)
(*                  lock, so every map access is a separate step           *)
(*   SpecSession    one Bubble Tea program with its streaming workers      *)
(*   SpecUI         the program with its view shortcuts and one stream;    *)
(*                  SpecUILive adds the fairness of the quit timer         *)
(*   SpecKeys       the program with all keys and slash commands           *)
(***************************************************************************)
EXTENDS Integers, Sequences, FiniteSets, Bags, TLC

(* ---------------------------------------------------------------------- *)
(* Bounds and program constants                                           *)
(* ---------------------------------------------------------------------- *)

\* const maxSessionsPerIP = 5
maxSessionsPerIP == 5

\* number of SessionCounter calls explored by SpecCounter
MaxCalls == 7

\* number of concurrent connection handlers explored by SpecAdmission
NumConns == 3

\* largest maxPerIP given to NewSessionCounter in SpecAdmission
RaceLimit == 2

\* remote addresses as character sequences, "ip:port"
RemoteAddrs ==
    { <<"a", ":", "1">>, <<"a", ":", "2">>, <<"b", ":", "1">>,
      <<"a", ":", "b", ":", "1">> }

\* remote addresses of the connections of SpecAdmission
ConnAddrs == { <<"a", ":", "1">>, <<"b", ":", "1">> }

Conns == 1..NumConns

RECURSIVE SumOver(_, _)
SumOver(f, S) ==
    IF S = {} THEN 0
    ELSE LET x == CHOOSE y \in S : TRUE IN f[x] + SumOver(f, S \ {x})

SetMax(S) == CHOOSE x \in S : \A y \in S : y <= x

(* ---------------------------------------------------------------------- *)
(* SessionCounter                                                         *)
(* ---------------------------------------------------------------------- *)

IPKeyWholeAddr(addr) == addr

\* ip := addr; cut at the last ':' when there is one
IPKey(addr) ==
    LET colons == { i \in 1..Len(addr) : addr[i] = ":" }
    IN  IF Len(addr) - 1 > 0 /\ colons # {}
        THEN SubSeq(addr, 1, SetMax(colons) - 1)
        ELSE addr

IPs == { IPKey(a) : a \in RemoteAddrs }

\* sc.counts[ip] as an rvalue: a missing key reads as the zero value
Count(cnts, ip) == IF ip \in DOMAIN cnts THEN cnts[ip] ELSE 0

\* sc.counts[ip] = v
Put(cnts, ip, v) ==
    [k \in DOMAIN cnts \cup {ip} |-> IF k = ip THEN v ELSE cnts[k]]

\* delete(sc.counts, ip)
Delete(cnts, ip) == [k \in DOMAIN cnts \ {ip} |-> cnts[k]]

AtLimitOffByOne(n, max) == n > max

\* sc.counts[ip] >= sc.maxPerIP
AtLimit(n, max) == n >= max

HasSlotNever(n) == FALSE

\* sc.counts[ip] > 0
HasSlot(n) == n > 0

IsZeroNever(n) == FALSE

\* sc.counts[ip] == 0
IsZero(n) == n = 0

\* NewSessionCounter(maxPerIP).counts
NewCounts == [k \in {} |-> 0]

\* Acquire run without interleaving: the returned bool
AcquireResult(cnts, addr, max) == ~AtLimit(Count(cnts, IPKey(addr)), max)

\* Acquire run without interleaving: the map afterwards
AcquireCounts(cnts, addr, max) ==
    LET ip == IPKey(addr)
    IN  IF AtLimit(Count(cnts, ip), max)
        THEN cnts
        ELSE Put(cnts, ip, Count(cnts, ip) + 1)

\* Release run without interleaving: the map afterwards
ReleaseCounts(cnts, addr) ==
    LET ip  == IPKey(addr)
        dec == IF HasSlot(Count(cnts, ip))
               THEN Put(cnts, ip, Count(cnts, ip) - 1)
               ELSE cnts
    IN  IF IsZero(Count(dec, ip)) THEN Delete(dec, ip) ELSE dec

(* ---------------------------------------------------------------------- *)
(* Variables                                                              *)
(* ---------------------------------------------------------------------- *)

VARIABLES
    counts,     \* SessionCounter.counts
    maxPerIP,   \* SessionCounter.maxPerIP
    call,       \* SpecCounter: the last call, its arguments and result
    nAcq,       \* SpecCounter: Acquire calls made so far per IP
    nRel,       \* SpecCounter: Release calls made so far per IP
    hpc,        \* SpecAdmission: position of each middleware handler
    haddr,      \* SpecAdmission: s.RemoteAddr().String() of each handler
    htmp,       \* SpecAdmission: value a handler read from the map
    hout,       \* SpecAdmission: what each handler has done so far
    crashed,    \* SpecAdmission: the runtime aborted on a map race
    view,           \* Model.view
    input,          \* Model.input.Value(), a sequence of characters
    errorMessage,   \* Model.errorMessage
    statusMessage,  \* Model.statusMessage
    quitting,       \* Model.quitting
    selectedProj,   \* Model.selectedProj
    chatHistory,    \* Model.chatHistory
    chatResponse,   \* *Model.chatResponse, each fragment with its stream
    isStreaming,    \* Model.isStreaming
    streamCancel,   \* Model.streamCancel: 0 is nil, else the stream it cancels
    chunkChan,      \* Model.chunkChan and Model.errChan: 0 is nil, else the stream
    nStreams,       \* streams created by sendChatMessage so far
    wpc,            \* position of the worker goroutine of each stream
    nEmit,          \* fragments the AI client handed to the callback
    queue,          \* contents of each chunkChan
    chClosed,       \* chunkChan and errChan of the stream are closed
    errSlot,        \* contents of each errChan ("" is empty)
    cancelled,      \* ctx.Done() of each stream is closed
    listeners,      \* listenForChunks commands waiting on each stream
    msgs,           \* tea.Msg values on their way to Update
    prog,           \* the Bubble Tea program: running, quit, closed or panic
    width,          \* Model.width
    showWelcome,    \* Model.showWelcome
    viewport,       \* Model.viewport: what SetContent was last given
    lFn,            \* SpecText: the layout function applied, "none" before
    lText,          \* SpecText: its text argument
    lWidth,         \* SpecText: its width argument
    lOut            \* SpecText: its result

admVars == <<counts, maxPerIP, call, nAcq, nRel, hpc, haddr, htmp, hout, crashed>>

uiVars == <<view, input, errorMessage, statusMessage, quitting>>

chatVars == <<chatHistory, chatResponse, isStreaming, streamCancel, chunkChan>>

pipeVars == <<nStreams, wpc, nEmit, queue, chClosed, errSlot, cancelled>>

rtVars == <<listeners, msgs, prog>>

navVars == <<selectedProj>>

viewVars == <<width, showWelcome, viewport>>

sesVars == <<uiVars, navVars, chatVars, pipeVars, rtVars, viewVars>>

layVars == <<lFn, lText, lWidth, lOut>>

vars == <<admVars, sesVars, layVars>>

(* ---------------------------------------------------------------------- *)
(* app.Model: data                                                        *)
(* ---------------------------------------------------------------------- *)

\* chat submissions (streams) explored per session
MaxStreams == 2

\* bytes the upstream responses of one session deliver in total
MaxFrags == 3

\* make(chan string, 1000), scaled down
ChanCap == 1

\* quitAfter ticks that can be pending at once
MaxTicks == 1

\* chat submissions explored per session in SpecUI
UIStreams == 1

\* bytes the upstream responses of one session deliver in SpecUI
UIFrags == 1

\* length up to which typed digits extend the input line
MaxTyped == 2

\* digit keys pressed in SpecKeys: within and beyond the project count
DigitKeys == {1, 2, 3}

Streams == 1..MaxStreams

Views == {"Chat", "Help", "About", "Projects", "ProjectDetail",
          "Resume", "Experience"}

\* the bytes of an upstream response, in the order the gateway sends them
Bytes == <<"a", "b", "c", "d">>

\* string(buf[:n]) of the k-th reader.Read
ByteAt(k) == Bytes[((k - 1) % Len(Bytes)) + 1]

\* texts a user types or pastes into the input line
TextHi   == <<"h", "i">>
TextExit == <<"/", "e", "x", "i", "t">>

InputTexts == {TextHi, TextExit}

\* m.projects.Projects: the ids of the loaded projects, in file order
ProjectIDs == <<"x", "y">>

\* texts submitted in SpecUI: chat text with and without blanks around it,
\* blank text, the quit commands and an unknown command
UITexts ==
    { TextHi,
      <<" ", "h", "i", " ">>,
      <<" ">>,
      TextExit,
      <<"/", "q">>,
      <<"/", "Q", "u", "i", "t">>,
      <<"/", "Z", "z">> }

\* texts submitted in SpecKeys: blank text and slash commands with and
\* without arguments, known and unknown
CommandTexts ==
    { TextExit,
      <<" ">>,
      <<"/", "q">>,
      <<"/", "Q", "u", "i", "t">>,
      <<"/", "H">>,
      <<"/", "p">>,
      <<"/", "o">>,
      <<"/", "o", " ", "y">>,
      <<"/", "o", " ", " ", "z", " ", "x">>,
      <<"/", "c", "l", "s">>,
      <<"/", "b">>,
      <<"/", "Z", "z">> }

UpperCase == <<"A", "B", "C", "D", "E", "F", "G", "H", "I", "J", "K", "L", "M",
               "N", "O", "P", "Q", "R", "S", "T", "U", "V", "W", "X", "Y", "Z">>

LowerCase == <<"a", "b", "c", "d", "e", "f", "g", "h", "i", "j", "k", "l", "m",
               "n", "o", "p", "q", "r", "s", "t", "u", "v", "w", "x", "y", "z">>

\* strings.ToLower
ToLower(t) ==
    [i \in 1..Len(t) |->
        IF \E k \in 1..Len(UpperCase) : UpperCase[k] = t[i]
        THEN LowerCase[CHOOSE k \in 1..Len(UpperCase) : UpperCase[k] = t[i]]
        ELSE t[i]]

\* the Go string of a character sequence
RECURSIVE Str(_)
Str(t) == IF t = <<>> THEN "" ELSE Head(t) \o Str(Tail(t))

\* a string held in a ChatMessage or in chatResponse: each character with
\* the stream that produced it (0 for text typed by the user)
Tagged(text, s) == [i \in 1..Len(text) |-> [f |-> text[i], s |-> s]]

\* the plain string of a tagged one
Text(content) == [i \in 1..Len(content) |-> content[i].f]

\* every message gets the role of the assistant
ChatMessageAssistant(role, content) ==
    [role |-> "assistant", content |-> content]

\* ChatMessage{Role, Content}
ChatMessage(role, content) == [role |-> role, content |-> content]

\* the fragments the producer of a stream has emitted so far
Emitted(n) == [i \in 1..n |-> ByteAt(i)]

\* aiClient := client.NewAIClient(aiGatewayURL) is never nil
AIClientAvailable == TRUE

ChunkMsg(f, s) == [type |-> "chunk", f |-> f, err |-> "", s |-> s]
DoneMsg(err, s) == [type |-> "done", f |-> "", err |-> err, s |-> s]
TickMsg == [type |-> "quit", f |-> "", err |-> "", s |-> 0]

\* viewport.New(cfg.Width-4, cfg.Height-8): no content has been set
NoContent ==
    [view |-> "", width |-> 0, project |-> 0, welcome |-> FALSE,
     history |-> <<>>, streaming |-> FALSE, response |-> <<>>, md |-> 0]

\* app.NewModel(cfg), before any stream; cfg.Width is the width of the
\* client's terminal, 80 columns here
NewSession ==
    /\ view = "Chat"
    /\ input = <<>>
    /\ errorMessage = ""
    /\ statusMessage = ""
    /\ quitting = FALSE
    /\ selectedProj = ""
    /\ chatHistory = <<>>
    /\ chatResponse = <<>>
    /\ isStreaming = FALSE
    /\ streamCancel = 0
    /\ chunkChan = 0
    /\ nStreams = 0
    /\ wpc = [s \in Streams |-> "none"]
    /\ nEmit = [s \in Streams |-> 0]
    /\ queue = [s \in Streams |-> <<>>]
    /\ chClosed = [s \in Streams |-> FALSE]
    /\ errSlot = [s \in Streams |-> ""]
    /\ cancelled = [s \in Streams |-> FALSE]
    /\ listeners = [s \in Streams |-> 0]
    /\ msgs = EmptyBag
    /\ prog = "running"
    /\ width = 80
    /\ showWelcome = TRUE
    /\ viewport = NoContent

NoCall == [op |-> "none", addr |-> <<>>, ok |-> TRUE, pre |-> NewCounts]

NoOut == [wrote |-> FALSE, exited |-> FALSE, invoked |-> FALSE,
          acquires |-> 0, releases |-> 0]

HandlersIdle ==
    /\ hpc = [c \in Conns |-> "new"]
    /\ haddr = [c \in Conns |-> <<>>]
    /\ htmp = [c \in Conns |-> 0]
    /\ hout = [c \in Conns |-> NoOut]
    /\ crashed = FALSE

CallsIdle ==
    /\ call = NoCall
    /\ nAcq = [ip \in IPs |-> 0]
    /\ nRel = [ip \in IPs |-> 0]

\* no layout function has been applied
LayoutIdle ==
    /\ lFn = "none"
    /\ lText = <<>>
    /\ lWidth = 0
    /\ lOut = <<>>

(* ---------------------------------------------------------------------- *)
(* SpecCounter: sequential use of SessionCounter                          *)
(* ---------------------------------------------------------------------- *)

InitCounter ==
    /\ counts = NewCounts
    /\ maxPerIP = maxSessionsPerIP
    /\ CallsIdle
    /\ HandlersIdle
    /\ NewSession
    /\ LayoutIdle

CallsMade == SumOver(nAcq, IPs) + SumOver(nRel, IPs)

\* func (sc *SessionCounter) Acquire(addr string) bool
CallAcquire(addr) ==
    /\ CallsMade < MaxCalls
    /\ counts' = AcquireCounts(counts, addr, maxPerIP)
    /\ call' = [op |-> "Acquire", addr |-> addr,
                ok |-> AcquireResult(counts, addr, maxPerIP), pre |-> counts]
    /\ nAcq' = [nAcq EXCEPT ![IPKey(addr)] = @ + 1]
    /\ UNCHANGED <<maxPerIP, nRel, hpc, haddr, htmp, hout, crashed>>
    /\ UNCHANGED <<sesVars, layVars>>

\* func (sc *SessionCounter) Release(addr string)
CallRelease(addr) ==
    /\ CallsMade < MaxCalls
    /\ counts' = ReleaseCounts(counts, addr)
    /\ call' = [op |-> "Release", addr |-> addr, ok |-> TRUE, pre |-> counts]
    /\ nRel' = [nRel EXCEPT ![IPKey(addr)] = @ + 1]
    /\ UNCHANGED <<maxPerIP, nAcq, hpc, haddr, htmp, hout, crashed>>
    /\ UNCHANGED <<sesVars, layVars>>

NextCounter ==
    \/ \E addr \in RemoteAddrs : CallAcquire(addr)
    \/ \E addr \in RemoteAddrs : CallRelease(addr)

SpecCounter == InitCounter /\ [][NextCounter]_vars

(* ---------------------------------------------------------------------- *)
(* SpecAdmission: the rate limiting middleware, one goroutine per         *)
(* connection.  SessionCounter takes no lock, so the handlers interleave  *)
(* between any two accesses of sc.counts.                                 *)
(* ---------------------------------------------------------------------- *)

ReturnReasons == {"quit", "disconnect", "nopty", "error"}

\* positions at which the next step of a handler reads / writes sc.counts
ReadPcs  == {"acq_check", "acq_read", "rel_check", "rel_read", "rel_zero"}
WritePcs == {"acq_write", "rel_write", "rel_delete"}

InitAdmission ==
    /\ counts = NewCounts
    /\ maxPerIP = RaceLimit
    /\ CallsIdle
    /\ HandlersIdle
    /\ NewSession
    /\ LayoutIdle

\* addr := s.RemoteAddr().String()
Connect(c, addr) ==
    /\ ~crashed
    /\ hpc[c] = "new"
    /\ \A b \in Conns : b < c => hpc[b] # "new"
    /\ haddr' = [haddr EXCEPT ![c] = addr]
    /\ hpc' = [hpc EXCEPT ![c] = "acq_check"]
    /\ hout' = [hout EXCEPT ![c].acquires = @ + 1]
    /\ UNCHANGED <<counts, maxPerIP, call, nAcq, nRel, htmp, crashed>>
    /\ UNCHANGED <<sesVars, layVars>>

RejectFallsThrough(c) ==
    /\ hpc' = [hpc EXCEPT ![c] = "run"]
    /\ hout' = [hout EXCEPT ![c].wrote = TRUE, ![c].exited = TRUE,
                            ![c].invoked = TRUE]

\* Acquire returned false: s.Write(...); s.Exit(1); return
Reject(c) ==
    /\ hpc' = [hpc EXCEPT ![c] = "rejected"]
    /\ hout' = [hout EXCEPT ![c].wrote = TRUE, ![c].exited = TRUE]

\* Acquire: if sc.counts[ip] >= sc.maxPerIP { return false }
AcqCheck(c) ==
    /\ ~crashed
    /\ hpc[c] = "acq_check"
    /\ IF AtLimit(Count(counts, IPKey(haddr[c])), maxPerIP)
       THEN Reject(c)
       ELSE /\ hpc' = [hpc EXCEPT ![c] = "acq_read"]
            /\ hout' = hout
    /\ UNCHANGED <<counts, maxPerIP, call, nAcq, nRel, haddr, htmp, crashed>>
    /\ UNCHANGED <<sesVars, layVars>>

\* Acquire: sc.counts[ip]++, the load
AcqRead(c) ==
    /\ ~crashed
    /\ hpc[c] = "acq_read"
    /\ htmp' = [htmp EXCEPT ![c] = Count(counts, IPKey(haddr[c]))]
    /\ hpc' = [hpc EXCEPT ![c] = "acq_write"]
    /\ UNCHANGED <<counts, maxPerIP, call, nAcq, nRel, haddr, hout, crashed>>
    /\ UNCHANGED <<sesVars, layVars>>

\* Acquire: sc.counts[ip]++, the store; return true;
\* defer sessionCounter.Release(addr); next(s)
AcqWrite(c) ==
    /\ ~crashed
    /\ hpc[c] = "acq_write"
    /\ counts' = Put(counts, IPKey(haddr[c]), htmp[c] + 1)
    /\ htmp' = [htmp EXCEPT ![c] = 0]
    /\ hpc' = [hpc EXCEPT ![c] = "run"]
    /\ hout' = [hout EXCEPT ![c].invoked = TRUE]
    /\ UNCHANGED <<maxPerIP, call, nAcq, nRel, haddr, crashed>>
    /\ UNCHANGED <<sesVars, layVars>>

\* next(s) returns; the deferred Release starts
NextReturns(c, reason) ==
    /\ ~crashed
    /\ hpc[c] = "run"
    /\ reason \in ReturnReasons
    /\ hpc' = [hpc EXCEPT ![c] = "rel_check"]
    /\ UNCHANGED <<counts, maxPerIP, call, nAcq, nRel, haddr, htmp, hout, crashed>>
    /\ UNCHANGED <<sesVars, layVars>>

\* Release: if sc.counts[ip] > 0
RelCheck(c) ==
    /\ ~crashed
    /\ hpc[c] = "rel_check"
    /\ hpc' = [hpc EXCEPT ![c] =
                 IF HasSlot(Count(counts, IPKey(haddr[c])))
                 THEN "rel_read" ELSE "rel_zero"]
    /\ UNCHANGED <<counts, maxPerIP, call, nAcq, nRel, haddr, htmp, hout, crashed>>
    /\ UNCHANGED <<sesVars, layVars>>

\* Release: sc.counts[ip]--, the load
RelRead(c) ==
    /\ ~crashed
    /\ hpc[c] = "rel_read"
    /\ htmp' = [htmp EXCEPT ![c] = Count(counts, IPKey(haddr[c]))]
    /\ hpc' = [hpc EXCEPT ![c] = "rel_write"]
    /\ UNCHANGED <<counts, maxPerIP, call, nAcq, nRel, haddr, hout, crashed>>
    /\ UNCHANGED <<sesVars, layVars>>

\* Release: sc.counts[ip]--, the store
RelWrite(c) ==
    /\ ~crashed
    /\ hpc[c] = "rel_write"
    /\ counts' = Put(counts, IPKey(haddr[c]), htmp[c] - 1)
    /\ htmp' = [htmp EXCEPT ![c] = 0]
    /\ hpc' = [hpc EXCEPT ![c] = "rel_zero"]
    /\ UNCHANGED <<maxPerIP, call, nAcq, nRel, haddr, hout, crashed>>
    /\ UNCHANGED <<sesVars, layVars>>

\* Release: if sc.counts[ip] == 0
RelZero(c) ==
    /\ ~crashed
    /\ hpc[c] = "rel_zero"
    /\ IF IsZero(Count(counts, IPKey(haddr[c])))
       THEN /\ hpc' = [hpc EXCEPT ![c] = "rel_delete"]
            /\ hout' = hout
       ELSE /\ hpc' = [hpc EXCEPT ![c] = "done"]
            /\ hout' = [hout EXCEPT ![c].releases = @ + 1]
    /\ UNCHANGED <<counts, maxPerIP, call, nAcq, nRel, haddr, htmp, crashed>>
    /\ UNCHANGED <<sesVars, layVars>>

\* Release: delete(sc.counts, ip)
RelDelete(c) ==
    /\ ~crashed
    /\ hpc[c] = "rel_delete"
    /\ counts' = Delete(counts, IPKey(haddr[c]))
    /\ hpc' = [hpc EXCEPT ![c] = "done"]
    /\ hout' = [hout EXCEPT ![c].releases = @ + 1]
    /\ UNCHANGED <<maxPerIP, call, nAcq, nRel, haddr, htmp, crashed>>
    /\ UNCHANGED <<sesVars, layVars>>

\* the Go runtime detects a map write concurrent with another map access
\* and aborts the process ("fatal error: concurrent map writes"); every
\* handler goroutine ends with it
MapFault(c, d) ==
    /\ ~crashed
    /\ c # d
    /\ hpc[c] \in WritePcs
    /\ hpc[d] \in ReadPcs \cup WritePcs
    /\ crashed' = TRUE
    /\ hpc' = [b \in Conns |-> IF hpc[b] \in {"new", "rejected", "done"}
                                THEN hpc[b] ELSE "aborted"]
    /\ htmp' = [b \in Conns |-> 0]
    /\ UNCHANGED <<counts, maxPerIP, call, nAcq, nRel, haddr, hout>>
    /\ UNCHANGED <<sesVars, layVars>>

NextAdmission ==
    \/ \E c \in Conns, addr \in ConnAddrs : Connect(c, addr)
    \/ \E c \in Conns : AcqCheck(c)
    \/ \E c \in Conns : AcqRead(c)
    \/ \E c \in Conns : AcqWrite(c)
    \/ \E c \in Conns, reason \in ReturnReasons : NextReturns(c, reason)
    \/ \E c \in Conns : RelCheck(c)
    \/ \E c \in Conns : RelRead(c)
    \/ \E c \in Conns : RelWrite(c)
    \/ \E c \in Conns : RelZero(c)
    \/ \E c \in Conns : RelDelete(c)
    \/ \E c, d \in Conns : MapFault(c, d)

SpecAdmission == InitAdmission /\ [][NextAdmission]_vars

\* handlers that are inside Acquire or Release
InCall(c) == hpc[c] \in ReadPcs \cup WritePcs

\* admitted sessions of an IP whose handler has not finished its Release
Live(ip) == { c \in Conns : hpc[c] \in {"run", "rel_check", "rel_read",
                                         "rel_write", "rel_zero", "rel_delete"}
                             /\ IPKey(haddr[c]) = ip }

(* ---------------------------------------------------------------------- *)
(* SpecSession: one Bubble Tea program (app.Model) and the workers and    *)
(* listenForChunks commands of its streams.  Update runs one message to   *)
(* completion; workers and commands are goroutines of their own.          *)
(* ---------------------------------------------------------------------- *)

InitSession ==
    /\ counts = NewCounts
    /\ maxPerIP = maxSessionsPerIP
    /\ CallsIdle
    /\ HandlersIdle
    /\ NewSession
    /\ LayoutIdle

IsSpace(ch) == ch = " "

\* strings.TrimSpace
RECURSIVE TrimLeft(_)
TrimLeft(t) ==
    IF t # <<>> /\ IsSpace(Head(t)) THEN TrimLeft(Tail(t)) ELSE t

RECURSIVE TrimRight(_)
TrimRight(t) ==
    IF t # <<>> /\ IsSpace(t[Len(t)])
    THEN TrimRight(SubSeq(t, 1, Len(t) - 1)) ELSE t

TrimSpace(t) == TrimRight(TrimLeft(t))

\* strings.Fields: the maximal runs of non-space characters
RECURSIVE Fields(_)
Fields(t) ==
    LET u == TrimLeft(t)
        spaces == { i \in 1..Len(u) : IsSpace(u[i]) }
        n == IF spaces = {} THEN Len(u)
             ELSE (CHOOSE i \in spaces : \A j \in spaces : i <= j) - 1
    IN  IF u = <<>> THEN <<>>
        ELSE <<SubSeq(u, 1, n)>> \o Fields(SubSeq(u, n + 1, Len(u)))

GetProjectByIDNil(id) == 0

\* Projects.GetProjectByID: the position of the first project with this
\* id, 0 for nil
GetProjectByID(id) ==
    LET hits == { i \in 1..Len(ProjectIDs) : ProjectIDs[i] = id }
    IN  IF hits = {} THEN 0 ELSE CHOOSE i \in hits : \A j \in hits : i <= j

HasSlashPrefixNever(t) == FALSE

\* strings.HasPrefix(input, "/")
HasSlashPrefix(t) == t # <<>> /\ Head(t) = "/"

Pending(m) == IF BagIn(m, msgs) THEN CopiesIn(m, msgs) ELSE 0

\* a command hands its message to the program; a finished program drops it
Sent(m) == IF prog = "running" THEN msgs (+) SetToBag({m}) ELSE msgs

Received(m) == msgs (-) SetToBag({m})

(* ------------------------- worker goroutine --------------------------- *)

\* ChatStream returned err: if err != nil { errChan <- err };
\* close(errChan); close(chunkChan)
Finish(s, err) ==
    /\ errSlot' = [errSlot EXCEPT ![s] = err]
    /\ chClosed' = [chClosed EXCEPT ![s] = TRUE]
    /\ wpc' = [wpc EXCEPT ![s] = "done"]

\* top of the read loop: select { case <-ctx.Done(): return ctx.Err() },
\* else the worker blocks in reader.Read
LoopCheck(s) ==
    IF cancelled[s]
    THEN Finish(s, "ctx")
    ELSE /\ wpc' = [wpc EXCEPT ![s] = "read"]
         /\ UNCHANGED <<chClosed, errSlot>>

\* c.httpClient.Do(httpReq) answers 200; the read loop starts
WorkerCallOK(s) ==
    /\ wpc[s] = "call"
    /\ LoopCheck(s)
    /\ UNCHANGED <<nStreams, nEmit, queue, cancelled>>
    /\ UNCHANGED <<admVars, layVars, viewVars, navVars, uiVars, chatVars, rtVars>>

\* c.httpClient.Do fails (on a cancelled ctx with its error), or the
\* gateway answers 429 or another status
WorkerCallFail(s) ==
    /\ wpc[s] = "call"
    /\ Finish(s, IF cancelled[s] THEN "ctx" ELSE "rate")
    /\ UNCHANGED <<nStreams, nEmit, queue, cancelled>>
    /\ UNCHANGED <<admVars, layVars, viewVars, navVars, uiVars, chatVars, rtVars>>

\* reader.Read returns one byte: callback(string(buf[:n]))
WorkerReadByte(s) ==
    /\ wpc[s] = "read"
    /\ SumOver(nEmit, Streams) < MaxFrags
    /\ nEmit' = [nEmit EXCEPT ![s] = @ + 1]
    /\ wpc' = [wpc EXCEPT ![s] = "send"]
    /\ UNCHANGED <<nStreams, queue, chClosed, errSlot, cancelled>>
    /\ UNCHANGED <<admVars, layVars, viewVars, navVars, uiVars, chatVars, rtVars>>

\* reader.Read returns io.EOF: return nil
WorkerReadEOF(s) ==
    /\ wpc[s] = "read"
    /\ Finish(s, "")
    /\ UNCHANGED <<nStreams, nEmit, queue, cancelled>>
    /\ UNCHANGED <<admVars, layVars, viewVars, navVars, uiVars, chatVars, rtVars>>

\* reader.Read returns another error
WorkerReadFail(s) ==
    /\ wpc[s] = "read"
    /\ Finish(s, "io")
    /\ UNCHANGED <<nStreams, nEmit, queue, cancelled>>
    /\ UNCHANGED <<admVars, layVars, viewVars, navVars, uiVars, chatVars, rtVars>>

HasRoomAlways(q) == TRUE

\* a send on the buffered chunkChan can proceed
HasRoom(q) == Len(q) < ChanCap

\* the callback: case chunkChan <- chunk: return nil; next loop round
WorkerSend(s) ==
    /\ wpc[s] = "send"
    /\ HasRoom(queue[s])
    /\ queue' = [queue EXCEPT ![s] = Append(@, ByteAt(nEmit[s]))]
    /\ LoopCheck(s)
    /\ UNCHANGED <<nStreams, nEmit, cancelled>>
    /\ UNCHANGED <<admVars, layVars, viewVars, navVars, uiVars, chatVars, rtVars>>

\* the callback: case <-ctx.Done(): return ctx.Err()
WorkerSendCancelled(s) ==
    /\ wpc[s] = "send"
    /\ cancelled[s]
    /\ Finish(s, "ctx")
    /\ UNCHANGED <<nStreams, nEmit, queue, cancelled>>
    /\ UNCHANGED <<admVars, layVars, viewVars, navVars, uiVars, chatVars, rtVars>>

(* ----------------------- listenForChunks command ---------------------- *)

\* chunk, ok := <-ch with ok: return StreamChunkMsg{Chunk: chunk}
ListenChunk(s) ==
    /\ listeners[s] > 0
    /\ queue[s] # <<>>
    /\ queue' = [queue EXCEPT ![s] = Tail(@)]
    /\ listeners' = [listeners EXCEPT ![s] = @ - 1]
    /\ msgs' = Sent(ChunkMsg(Head(queue[s]), s))
    /\ UNCHANGED <<nStreams, wpc, nEmit, chClosed, errSlot, cancelled, prog>>
    /\ UNCHANGED <<admVars, layVars, viewVars, navVars, uiVars, chatVars>>

\* chunk, ok := <-ch with !ok: select on errCh, StreamDoneMsg
ListenClosed(s) ==
    /\ listeners[s] > 0
    /\ queue[s] = <<>>
    /\ chClosed[s]
    /\ errSlot' = [errSlot EXCEPT ![s] = ""]
    /\ listeners' = [listeners EXCEPT ![s] = @ - 1]
    /\ msgs' = Sent(DoneMsg(errSlot[s], s))
    /\ UNCHANGED <<nStreams, wpc, nEmit, queue, chClosed, cancelled, prog>>
    /\ UNCHANGED <<admVars, layVars, viewVars, navVars, uiVars, chatVars>>

(* --------------------------- updateViewport --------------------------- *)

\* the messages buildChatView renders: role and text of each
Rendered(history) ==
    [i \in 1..Len(history) |->
        [role |-> history[i].role, content |-> Text(history[i].content)]]

\* SetWidth updates the max width for rendering
SetWidth(maxWidth, w) == IF w >= 20 THEN w ELSE maxWidth

\* the renderer of an update is the one the update before left behind
MarkdownRendererKept(last) == IF last = 0 THEN 80 ELSE last

\* mdRenderer := ui.NewMarkdownRenderer(styles): every update makes its own
\* renderer, of width 80, whatever width the last one (0: none) ended with
NewMarkdownRenderer(last) == 80

\* ChatMessage for an assistant message and StreamingMessage for a response
\* that is not empty call mdRenderer.SetWidth and render markdown
RendersMarkdown ==
    /\ view = "Chat"
    /\ \/ \E i \in 1..Len(chatHistory) : chatHistory[i].role = "assistant"
       \/ isStreaming /\ chatResponse # <<>>

\* the content updateViewport builds for the current view: the fields each
\* view's renderer reads (0 is the nil project), and the width the markdown
\* renderer works with (0: no markdown is rendered)
Content ==
    [view      |-> view,
     width     |-> width,
     project   |-> IF view = "ProjectDetail"
                   THEN GetProjectByID(selectedProj) ELSE 0,
     welcome   |-> view = "Chat" /\ showWelcome /\ chatHistory = <<>>,
     history   |-> IF view = "Chat" THEN Rendered(chatHistory) ELSE <<>>,
     streaming |-> view = "Chat" /\ isStreaming,
     response  |-> IF view = "Chat" /\ isStreaming
                   THEN Text(chatResponse) ELSE <<>>,
     md        |-> IF RendersMarkdown THEN SetWidth(80, width - 6) ELSE 0]

\* m.updateViewport(), called last in a handler: m.viewport.SetContent of
\* what the renderers give, the markdown one made for this update
UpdateViewport ==
    viewport' =
        [Content' EXCEPT !.md =
            IF @ = 0 THEN 0
            ELSE SetWidth(NewMarkdownRenderer(viewport.md), width' - 6)]

(* ------------------------------ Update -------------------------------- *)

CancelNever(s) == cancelled' = cancelled

\* m.streamCancel()
Cancel(s) == cancelled' = [cancelled EXCEPT ![s] = TRUE]

QuitAfterNever == msgs' = msgs

\* quitAfter(1500 * time.Millisecond)
QuitAfter == msgs' = msgs (+) SetToBag({TickMsg})

\* case tea.KeyCtrlC
KeyCtrlC ==
    /\ prog = "running"
    /\ Pending(TickMsg) < MaxTicks
    /\ IF streamCancel # 0 THEN Cancel(streamCancel) ELSE UNCHANGED cancelled
    /\ quitting' = TRUE
    /\ QuitAfter
    /\ UNCHANGED <<view, input, errorMessage, statusMessage>>
    /\ UNCHANGED <<nStreams, wpc, nEmit, queue, chClosed, errSlot>>
    /\ UNCHANGED <<listeners, prog>>
    /\ UNCHANGED <<admVars, layVars, navVars, chatVars>>
    /\ UNCHANGED viewVars

\* case "ctrl+q"
KeyCtrlQ ==
    /\ prog = "running"
    /\ Pending(TickMsg) < MaxTicks
    /\ quitting' = TRUE
    /\ QuitAfter
    /\ UNCHANGED <<view, input, errorMessage, statusMessage>>
    /\ UNCHANGED <<listeners, prog>>
    /\ UNCHANGED <<admVars, layVars, navVars, chatVars, pipeVars>>
    /\ UNCHANGED viewVars

\* case "/help", "/about", "/projects", "/resume", "/exp", "/back" and
\* their aliases of handleSlashCommand
SlashGoto(v) ==
    /\ view' = v
    /\ errorMessage' = ""
    /\ UNCHANGED <<quitting, selectedProj>>
    /\ UNCHANGED <<chatVars, pipeVars, rtVars>>
    /\ showWelcome' = IF v = "Chat" THEN showWelcome ELSE FALSE
    /\ UNCHANGED width
    /\ UpdateViewport

\* case "/open", "/o" of handleSlashCommand
SlashOpen(args) ==
    /\ IF Len(args) = 0
       THEN /\ errorMessage' = "Usage: /open <project-id>"
            /\ UNCHANGED <<view, selectedProj>>
       ELSE /\ selectedProj' = Str(args[1])
            /\ IF GetProjectByID(Str(args[1])) = 0
               THEN /\ errorMessage' = "Project not found: " \o Str(args[1])
                    /\ UNCHANGED view
               ELSE /\ view' = "ProjectDetail"
                    /\ errorMessage' = ""
    /\ UNCHANGED quitting
    /\ UNCHANGED <<chatVars, pipeVars, rtVars>>
    /\ showWelcome' = IF Len(args) # 0 /\ GetProjectByID(Str(args[1])) # 0
                      THEN FALSE ELSE showWelcome
    /\ UNCHANGED width
    /\ UpdateViewport

\* case "/clear", "/cls" of handleSlashCommand
SlashClear ==
    /\ view' = "Chat"
    /\ chatHistory' = <<>>
    /\ errorMessage' = ""
    /\ UNCHANGED <<quitting, selectedProj>>
    /\ UNCHANGED <<chatResponse, isStreaming, streamCancel, chunkChan>>
    /\ UNCHANGED <<pipeVars, rtVars>>
    /\ showWelcome' = TRUE
    /\ UNCHANGED width
    /\ UpdateViewport

\* case "/exit", "/quit", "/q" of handleSlashCommand
SlashExit ==
    /\ Pending(TickMsg) < MaxTicks
    /\ quitting' = TRUE
    /\ QuitAfter
    /\ errorMessage' = ""
    /\ UNCHANGED <<view, selectedProj, listeners, prog>>
    /\ UNCHANGED <<chatVars, pipeVars>>
    /\ UNCHANGED viewVars

SlashUnknownGoesBack(command) ==
    /\ errorMessage' = "Unknown command: " \o command
    /\ view' = "Chat"
    /\ UNCHANGED <<quitting, selectedProj>>
    /\ UNCHANGED <<chatVars, pipeVars, rtVars>>
    /\ UNCHANGED <<width, showWelcome>>
    /\ UpdateViewport

\* default: of handleSlashCommand
SlashUnknown(command) ==
    /\ errorMessage' = "Unknown command: " \o command
    /\ UNCHANGED <<view, quitting, selectedProj>>
    /\ UNCHANGED <<chatVars, pipeVars, rtVars>>
    /\ UNCHANGED <<width, showWelcome>>
    /\ UpdateViewport

\* handleSlashCommand(input)
HandleSlashCommand(text) ==
    LET parts   == Fields(text)
        command == Str(ToLower(parts[1]))
        args    == Tail(parts)
    IN  CASE command \in {"/help", "/h", "/?"} -> SlashGoto("Help")
          [] command \in {"/about", "/bio"} -> SlashGoto("About")
          [] command \in {"/projects", "/p"} -> SlashGoto("Projects")
          [] command \in {"/open", "/o"} -> SlashOpen(args)
          [] command \in {"/resume", "/cv", "/r"} -> SlashGoto("Resume")
          [] command \in {"/exp", "/experience", "/work"} ->
                 SlashGoto("Experience")
          [] command \in {"/clear", "/cls"} -> SlashClear
          [] command \in {"/exit", "/quit", "/q"} -> SlashExit
          [] command \in {"/back", "/b"} -> SlashGoto("Chat")
          [] OTHER -> SlashUnknown(command)

\* sendChatMessage(message) with m.aiClient != nil
SendChatMessage(text) ==
    /\ AIClientAvailable
    /\ nStreams < MaxStreams
    /\ LET s == nStreams + 1
       IN  /\ view' = "Chat"
           /\ chatHistory' = Append(chatHistory, ChatMessage("user", Tagged(text, 0)))
           /\ isStreaming' = TRUE
           /\ chatResponse' = <<>>
           /\ streamCancel' = s
           /\ chunkChan' = s
           /\ nStreams' = s
           /\ wpc' = [wpc EXCEPT ![s] = "call"]
           /\ listeners' = [listeners EXCEPT ![s] = @ + 1]
    /\ errorMessage' = ""
    /\ UNCHANGED <<quitting, selectedProj, msgs, prog>>
    /\ UNCHANGED <<nEmit, queue, chClosed, errSlot, cancelled>>
    /\ showWelcome' = FALSE
    /\ UNCHANGED width
    /\ UpdateViewport

\* case tea.KeyEnter
IgnoresEnterNever == FALSE

\* model.go:185-187: Enter returns at once while a response is streaming
IgnoresEnter == isStreaming

KeyEnter ==
    /\ prog = "running"
    /\ IF IgnoresEnter
       THEN UNCHANGED <<uiVars, navVars, chatVars, pipeVars, rtVars, viewVars>>
       ELSE /\ input' = <<>>
            /\ statusMessage' = ""
            /\ IF TrimSpace(input) = <<>>
               THEN /\ errorMessage' = ""
                    /\ UNCHANGED <<view, quitting, selectedProj>>
                    /\ UNCHANGED <<chatVars, pipeVars, rtVars, viewVars>>
               ELSE IF HasSlashPrefix(TrimSpace(input))
                    THEN HandleSlashCommand(TrimSpace(input))
                    ELSE SendChatMessage(TrimSpace(input))
    /\ UNCHANGED <<admVars, layVars>>

\* case tea.KeyEsc
KeyEsc ==
    /\ prog = "running"
    /\ IF isStreaming /\ streamCancel # 0
       THEN /\ Cancel(streamCancel)
            /\ isStreaming' = FALSE
            /\ IF Len(chatResponse) > 0
               THEN /\ chatHistory' = Append(chatHistory,
                                        ChatMessage("assistant", chatResponse))
                    /\ chatResponse' = <<>>
               ELSE UNCHANGED <<chatHistory, chatResponse>>
            /\ UNCHANGED view
       ELSE /\ view' = "Chat"
            /\ UNCHANGED <<cancelled, isStreaming, chatHistory, chatResponse>>
    /\ UNCHANGED <<input, errorMessage, statusMessage, quitting>>
    /\ UNCHANGED <<streamCancel, chunkChan>>
    /\ UNCHANGED <<nStreams, wpc, nEmit, queue, chClosed, errSlot>>
    /\ UNCHANGED <<admVars, layVars, navVars, rtVars>>
    /\ showWelcome' = IF ~(isStreaming /\ streamCancel # 0) /\ view # "Chat"
                         /\ chatHistory = <<>>
                      THEN TRUE ELSE showWelcome
    /\ UNCHANGED width
    /\ IF (isStreaming /\ streamCancel # 0) \/ view # "Chat"
       THEN UpdateViewport
       ELSE UNCHANGED viewport

\* case "ctrl+l"
KeyCtrlL ==
    /\ prog = "running"
    /\ chatHistory' = <<>>
    /\ view' = "Chat"
    /\ errorMessage' = ""
    /\ statusMessage' = ""
    /\ UNCHANGED <<input, quitting>>
    /\ UNCHANGED <<chatResponse, isStreaming, streamCancel, chunkChan>>
    /\ UNCHANGED <<admVars, layVars, navVars, pipeVars, rtVars>>
    /\ showWelcome' = TRUE
    /\ UNCHANGED width
    /\ UpdateViewport

GotoInterrupts(v) ==
    /\ prog = "running"
    /\ view' = v
    /\ isStreaming' = FALSE
    /\ UNCHANGED <<input, errorMessage, statusMessage, quitting>>
    /\ UNCHANGED <<chatHistory, chatResponse, streamCancel, chunkChan>>
    /\ UNCHANGED <<admVars, layVars, pipeVars, rtVars>>
    /\ UNCHANGED width
    /\ UpdateViewport

\* a shortcut that only switches the view
Goto(v) ==
    /\ prog = "running"
    /\ view' = v
    /\ UNCHANGED <<input, errorMessage, statusMessage, quitting>>
    /\ UNCHANGED <<admVars, layVars, chatVars, pipeVars, rtVars>>
    /\ UNCHANGED width
    /\ UpdateViewport

\* case "ctrl+h", "ctrl+/"
KeyCtrlH == UNCHANGED <<selectedProj, showWelcome>> /\ Goto("Help")

\* case "ctrl+a"
KeyCtrlA == UNCHANGED <<selectedProj, showWelcome>> /\ Goto("About")

\* case "ctrl+p"
KeyCtrlP == selectedProj' = "" /\ UNCHANGED showWelcome /\ Goto("Projects")

\* case "ctrl+r"
KeyCtrlR == UNCHANGED <<selectedProj, showWelcome>> /\ Goto("Resume")

\* case "ctrl+e"
KeyCtrlE == UNCHANGED <<selectedProj, showWelcome>> /\ Goto("Experience")

\* case "ctrl+w"
KeyCtrlW ==
    /\ UNCHANGED selectedProj
    /\ showWelcome' = (chatHistory = <<>>)
    /\ Goto("Chat")

\* msg.String() of the digit keys
Digits == <<"1", "2", "3", "4", "5", "6", "7", "8", "9">>

KeyDigitAnyInput(k) ==
    /\ prog = "running"
    /\ IF view = "Projects" /\ k - 1 < Len(ProjectIDs)
       THEN /\ selectedProj' = ProjectIDs[k]
            /\ view' = "ProjectDetail"
            /\ UNCHANGED input
       ELSE /\ Len(input) < MaxTyped
            /\ input' = Append(input, Digits[k])
            /\ UNCHANGED <<view, selectedProj>>
    /\ UNCHANGED <<errorMessage, statusMessage, quitting>>
    /\ UNCHANGED <<admVars, layVars, chatVars, pipeVars, rtVars>>
    /\ UNCHANGED <<width, showWelcome>>
    /\ IF view = "Projects" /\ k - 1 < Len(ProjectIDs)
       THEN UpdateViewport
       ELSE UNCHANGED viewport

\* a digit key: project selection in the projects view with empty input,
\* otherwise the rune goes to m.input.Update(msg)
KeyDigit(k) ==
    /\ prog = "running"
    /\ IF view = "Projects" /\ input = <<>> /\ k - 1 < Len(ProjectIDs)
       THEN /\ selectedProj' = ProjectIDs[k]
            /\ view' = "ProjectDetail"
            /\ UNCHANGED input
       ELSE /\ Len(input) < MaxTyped
            /\ input' = Append(input, Digits[k])
            /\ UNCHANGED <<view, selectedProj>>
    /\ UNCHANGED <<errorMessage, statusMessage, quitting>>
    /\ UNCHANGED <<admVars, layVars, chatVars, pipeVars, rtVars>>
    /\ UNCHANGED <<width, showWelcome>>
    /\ IF view = "Projects" /\ input = <<>> /\ k - 1 < Len(ProjectIDs)
       THEN UpdateViewport
       ELSE UNCHANGED viewport

\* a paste event (msg.Paste) or typed runes: m.input.Update(msg)
KeyPaste(text) ==
    /\ prog = "running"
    /\ input = <<>>
    /\ input' = text
    /\ UNCHANGED <<view, errorMessage, statusMessage, quitting>>
    /\ UNCHANGED <<admVars, layVars, navVars, chatVars, pipeVars, rtVars>>
    /\ UNCHANGED viewVars

\* case tea.WindowSizeMsg
WindowSize(w) ==
    /\ prog = "running"
    /\ width' = w
    /\ UNCHANGED <<uiVars, navVars, chatVars, pipeVars, rtVars, showWelcome>>
    /\ UNCHANGED <<admVars, layVars>>
    /\ UpdateViewport

\* case StreamChunkMsg
DeliverChunk(m) ==
    /\ prog = "running"
    /\ BagIn(m, msgs)
    /\ m.type = "chunk"
    /\ msgs' = Received(m)
    /\ chatResponse' = Append(chatResponse, [f |-> m.f, s |-> m.s])
    /\ listeners' = IF chunkChan # 0
                    THEN [listeners EXCEPT ![chunkChan] = @ + 1]
                    ELSE listeners
    /\ UNCHANGED <<chatHistory, isStreaming, streamCancel, chunkChan, prog>>
    /\ UNCHANGED <<admVars, layVars, navVars, uiVars, pipeVars>>
    /\ UNCHANGED <<width, showWelcome>>
    /\ UpdateViewport

FinalizedAlways(history, response) ==
    Append(history, ChatMessage("assistant", response))

\* else if response != "" { m.chatHistory = append(m.chatHistory, ...) }
Finalized(history, response) ==
    IF response # <<>>
    THEN Append(history, ChatMessage("assistant", response))
    ELSE history

\* case StreamDoneMsg
DeliverDone(m) ==
    /\ prog = "running"
    /\ BagIn(m, msgs)
    /\ m.type = "done"
    /\ msgs' = Received(m)
    /\ isStreaming' = FALSE
    /\ IF m.err # ""
       THEN /\ errorMessage' = m.err
            /\ UNCHANGED chatHistory
       ELSE /\ UNCHANGED errorMessage
            /\ chatHistory' = Finalized(chatHistory, chatResponse)
    /\ chatResponse' = <<>>
    /\ chunkChan' = 0
    /\ UNCHANGED <<view, input, statusMessage, quitting>>
    /\ UNCHANGED <<streamCancel, listeners, prog>>
    /\ UNCHANGED <<admVars, layVars, navVars, pipeVars>>
    /\ UNCHANGED <<width, showWelcome>>
    /\ UpdateViewport

\* the program has returned: its Model value is dropped (what remains are
\* the quitting flag it ended with and the cancel function, which nothing
\* calls any more)
Dropped ==
    /\ view' = "Chat"
    /\ input' = <<>>
    /\ errorMessage' = ""
    /\ statusMessage' = ""
    /\ chatHistory' = <<>>
    /\ chatResponse' = <<>>
    /\ isStreaming' = FALSE
    /\ chunkChan' = 0
    /\ selectedProj' = ""
    /\ showWelcome' = TRUE
    /\ viewport' = NoContent
    /\ UNCHANGED <<quitting, streamCancel, width>>

\* case QuitMsg: return m, tea.Quit; the program then ends and the
\* messages still on their way to it are discarded
DeliverQuit ==
    /\ prog = "running"
    /\ BagIn(TickMsg, msgs)
    /\ msgs' = EmptyBag
    /\ prog' = "quit"
    /\ Dropped
    /\ UNCHANGED listeners
    /\ UNCHANGED <<admVars, layVars, pipeVars>>

\* the transport ends the session: client disconnect or idle timeout
\* (wish.WithIdleTimeout); Update is not called for it, and ctx of
\* sendChatMessage derives from context.Background(), not from the session
Disconnect ==
    /\ prog = "running"
    /\ prog' = "closed"
    /\ msgs' = EmptyBag
    /\ Dropped
    /\ UNCHANGED <<listeners>>
    /\ UNCHANGED <<admVars, layVars, pipeVars>>

NextSession ==
    \/ \E s \in Streams : WorkerCallOK(s)
    \/ \E s \in Streams : WorkerCallFail(s)
    \/ \E s \in Streams : WorkerReadByte(s)
    \/ \E s \in Streams : WorkerReadEOF(s)
    \/ \E s \in Streams : WorkerReadFail(s)
    \/ \E s \in Streams : WorkerSend(s)
    \/ \E s \in Streams : WorkerSendCancelled(s)
    \/ \E s \in Streams : ListenChunk(s)
    \/ \E s \in Streams : ListenClosed(s)
    \/ KeyCtrlC
    \/ KeyCtrlQ
    \/ KeyEnter
    \/ KeyEsc
    \/ KeyCtrlL
    \/ \E text \in InputTexts : KeyPaste(text)
    \/ \E m \in BagToSet(msgs) : DeliverChunk(m)
    \/ \E m \in BagToSet(msgs) : DeliverDone(m)
    \/ DeliverQuit
    \/ Disconnect

SpecSession == InitSession /\ [][NextSession]_vars

(* ------------------------------- View --------------------------------- *)

\* the status/hint line of renderFooter
Hint ==
    IF errorMessage # "" THEN "ERR: " \o errorMessage
    ELSE IF statusMessage # "" THEN statusMessage
    ELSE IF isStreaming THEN "ESC abort"
    ELSE IF view # "Chat" THEN "ESC back"
    ELSE "shortcuts"

\* renderQuitScreen
RenderQuitScreen ==
    [screen |-> "CONNECTION TERMINATED", view |-> "", hint |-> ""]

\* Model.View: the farewell frame when quitting, else header with the view
\* indicator, content and footer
View ==
    IF quitting
    THEN RenderQuitScreen
    ELSE [screen |-> "MOHAK.SH", view |-> view, hint |-> Hint]

(* ------------------------- rendering arithmetic ----------------------- *)

max(a, b) == IF a > b THEN a ELSE b

min(a, b) == IF a < b THEN a ELSE b

\* Go's integer division truncates toward zero
GoDiv(a, b) == IF a >= 0 THEN a \div b ELSE -((-a) \div b)

\* strings.Repeat(s, count) panics on a negative count
RepeatPanics(count) == count < 0

\* s[:n] panics when n is negative or beyond len(s)
SlicePanics(s, n) == n < 0 \/ n > Len(s)

\* boxWidth calculates optimal box width based on screen width
boxWidth(screenWidth) ==
    IF screenWidth < 60 THEN screenWidth - 4
    ELSE IF screenWidth < 100 THEN min(60, screenWidth - 8)
    ELSE min(70, screenWidth - 20)

\* contentWidth returns usable content width inside a box
contentWidth(boxW) == boxW - 4

\* box(title, lines, styles, width) panics: the title slice and the
\* repeats of the top and bottom borders (a content line is truncated by
\* TruncateText and its padding is clamped at 0; center pads only when the
\* text is narrower than the width)
BoxPanics(title, w) ==
    LET cw       == contentWidth(boxWidth(w))
        titleLen == min(Len(title), cw - 4)
        titlePad == max(1, GoDiv(cw - titleLen, 2))
    IN  \/ RepeatPanics(titlePad)
        \/ SlicePanics(title, min(Len(title), titleLen))
        \/ RepeatPanics(max(1, cw - titlePad - titleLen))
        \/ RepeatPanics(cw + 2)

\* the separator rule of ProjectsList, Resume and Experience:
\* strings.Repeat("-", min(cw-2, limit))
SeparatorPanics(w, limit) ==
    RepeatPanics(min(contentWidth(boxWidth(w)) - 2, limit))

\* ui.Help: two boxes when the content width is at least 40, else one
HelpPanics(w) ==
    IF contentWidth(boxWidth(w)) >= 40
    THEN BoxPanics("ALT+KEY", w) \/ BoxPanics("SLASH", w)
    ELSE BoxPanics("HELP", w)

\* rendering the content c, as updateViewport does for its view, panics.
\* Modelled: the boxes and separator rules of each view. Not modelled: the
\* truncations whose lengths come from the content files (bio, resume,
\* project descriptions and links) and the rendering of chat messages.
ContentPanics(c) ==
    CASE c.view = "Chat" -> c.welcome /\ BoxPanics("SHORTCUTS", c.width)
      [] c.view = "Help" -> HelpPanics(c.width)
      [] c.view = "About" -> BoxPanics("PROFILE", c.width)
      [] c.view = "Projects" ->
            SeparatorPanics(c.width, 40) \/ BoxPanics("PROJECTS", c.width)
      [] c.view = "ProjectDetail" ->
            c.project # 0 /\ BoxPanics(ProjectIDs[c.project], c.width)
      [] c.view = "Resume" ->
            SeparatorPanics(c.width, 44) \/ BoxPanics("CREDENTIALS", c.width)
      [] c.view = "Experience" ->
            SeparatorPanics(c.width, 44) \/ BoxPanics("EXPERIENCE", c.width)
      [] OTHER -> FALSE

\* renderQuitScreen panics: the border and the two centred lines
RenderQuitScreenPanics ==
    LET msgWidth == Len("CONNECTION TERMINATED")
        subWidth == Len("// session ended")
        pad      == GoDiv(width - 4 - msgWidth, 2)
        pad2     == GoDiv(width - 4 - subWidth, 2)
    IN  \/ RepeatPanics(width - 2)
        \/ RepeatPanics(pad)
        \/ RepeatPanics(width - 4 - pad - msgWidth)
        \/ RepeatPanics(pad2)
        \/ RepeatPanics(width - 4 - pad2 - subWidth)

\* renderHeader and renderFooter panic: their borders repeat innerWidth+2
\* times; the spacings and paddings are clamped with max
RenderFramePanics == RepeatPanics((width - 4) + 2)

\* Model.View panics on the current state
ViewPanics ==
    IF quitting THEN RenderQuitScreenPanics ELSE RenderFramePanics

\* the program cannot go on: View panics, or the content on display came
\* from an updateViewport that panics
Panics == ViewPanics \/ (viewport = Content /\ ContentPanics(Content))

(* ---------------------------------------------------------------------- *)
(* Text layout engine. A text is a sequence of characters: "a".."z", " ", *)
(* "-", "." and "\n" are one byte and one cell wide; "W" stands for a     *)
(* wide rune (three bytes, two cells, as a CJK character or an emoji);    *)
(* "S" stands for the style sequence ESC[1m and "R" for the reset         *)
(* sequence ESC[0m (four bytes, no cell); "?" is a byte cut out of a      *)
(* rune. A result with several lines is the sequence of its lines.        *)
(* ---------------------------------------------------------------------- *)

IsEscape(ch) == ch \in {"S", "R"}

\* lipgloss.Width: the cells a text takes on the terminal
RECURSIVE Width(_)
Width(t) ==
    IF t = <<>> THEN 0
    ELSE (IF IsEscape(Head(t)) THEN 0 ELSE IF Head(t) = "W" THEN 2 ELSE 1)
         + Width(Tail(t))

\* len(s): the bytes of a text
RECURSIVE ByteLen(_)
ByteLen(t) ==
    IF t = <<>> THEN 0
    ELSE (IF IsEscape(Head(t)) THEN 4 ELSE IF Head(t) = "W" THEN 3 ELSE 1)
         + ByteLen(Tail(t))

\* s[:n] on bytes: whole characters while they fit, then the bytes of the
\* character that is cut
RECURSIVE TakeBytes(_, _)
TakeBytes(t, n) ==
    IF t = <<>> \/ n <= 0 THEN <<>>
    ELSE IF ByteLen(<<Head(t)>>) <= n
         THEN <<Head(t)>> \o TakeBytes(Tail(t), n - ByteLen(<<Head(t)>>))
         ELSE [i \in 1..n |-> "?"]

\* strings.Contains(s, "\x1b[")
HasEscape(t) == \E i \in 1..Len(t) : IsEscape(t[i])

\* strings.Split(s, sep) for a separator of one character
RECURSIVE Split(_, _)
Split(t, sep) ==
    IF \A i \in 1..Len(t) : t[i] # sep THEN <<t>>
    ELSE LET k == CHOOSE i \in 1..Len(t) :
                     t[i] = sep /\ \A j \in 1..(i - 1) : t[j] # sep
         IN  <<SubSeq(t, 1, k - 1)>> \o Split(SubSeq(t, k + 1, Len(t)), sep)

\* result.WriteString(s) on a builder whose text is kept as its lines
Write(out, s) == [out EXCEPT ![Len(out)] = @ \o s]

\* result.WriteString("\n")
NewLine(out) == Append(out, <<>>)

\* the hard split of wrapPlainLine: pieces of maxWidth-1 bytes, each but
\* the last followed by "-" (maxWidth is at least 2 here)
RECURSIVE Pieces(_, _)
Pieces(word, maxWidth) ==
    IF Len(word) <= maxWidth - 1 THEN <<word>>
    ELSE <<SubSeq(word, 1, maxWidth - 1) \o <<"-">>>>
         \o Pieces(SubSeq(word, maxWidth, Len(word)), maxWidth)

\* the loop of wrapPlainLine over words[i..], with the builder out and the
\* counter currentLineLen
RECURSIVE PlainWords(_, _, _, _, _)
PlainWords(words, i, out, currentLineLen, maxWidth) ==
    IF i > Len(words) THEN out
    ELSE
      LET word    == words[i]
          wordLen == ByteLen(word)
      IN  IF wordLen > maxWidth
          THEN LET o1 == IF currentLineLen > 0 THEN NewLine(out) ELSE out
                   ps == Pieces(word, maxWidth)
               IN  PlainWords(words, i + 1, Write(o1, ps[1]) \o Tail(ps),
                              wordLen % (maxWidth - 1), maxWidth)
          ELSE LET spaceNeeded ==
                       wordLen + IF i > 1 /\ currentLineLen > 0 THEN 1 ELSE 0
               IN  IF currentLineLen + spaceNeeded > maxWidth
                   THEN PlainWords(words, i + 1, Write(NewLine(out), word),
                                   wordLen, maxWidth)
                   ELSE IF currentLineLen > 0
                   THEN PlainWords(words, i + 1, Write(out, <<" ">> \o word),
                                   currentLineLen + 1 + wordLen, maxWidth)
                   ELSE PlainWords(words, i + 1, Write(out, word),
                                   currentLineLen + wordLen, maxWidth)

\* wrapPlainLine wraps plain text at word boundaries
wrapPlainLine(line, maxWidth) ==
    PlainWords(Fields(line), 1, <<<<>>>>, 0, maxWidth)

\* the loop of wrapStyledLine over runes[i..]: escape sequences are copied
\* and remembered, a line is broken before the rune that finds
\* currentLineWidth at maxWidth, and the active styles are written again
RECURSIVE StyledRunes(_, _, _, _, _, _)
StyledRunes(runes, i, out, currentLineWidth, activeStyles, maxWidth) ==
    IF i > Len(runes) THEN out
    ELSE
      LET r == runes[i]
      IN  IF IsEscape(r)
          THEN StyledRunes(runes, i + 1, Write(out, <<r>>), currentLineWidth,
                           IF r = "R" THEN <<>> ELSE Append(activeStyles, r),
                           maxWidth)
          ELSE IF currentLineWidth >= maxWidth
          THEN StyledRunes(runes, i + 1,
                           Write(NewLine(out), activeStyles \o <<r>>),
                           1, activeStyles, maxWidth)
          ELSE StyledRunes(runes, i + 1, Write(out, <<r>>),
                           currentLineWidth + 1, activeStyles, maxWidth)

\* wrapStyledLine wraps text that contains ANSI escape codes
wrapStyledLine(line, maxWidth) ==
    StyledRunes(line, 1, <<<<>>>>, 0, <<>>, maxWidth)

\* wrapLine wraps a single line of text
wrapLine(line, maxWidth) ==
    IF Width(line) <= maxWidth THEN <<line>>
    ELSE IF HasEscape(line) THEN wrapStyledLine(line, maxWidth)
    ELSE wrapPlainLine(line, maxWidth)

\* the for loop of the hard split never ends: its step maxWidth-1 is 0
WrapNeverEnds(text, maxWidth) ==
    /\ maxWidth = 1
    /\ \E k \in 1..Len(Split(text, "\n")) :
          LET line == Split(text, "\n")[k]
          IN  /\ Width(line) > maxWidth
              /\ ~HasEscape(line)
              /\ \E j \in 1..Len(Fields(line)) :
                    ByteLen(Fields(line)[j]) > maxWidth

\* the lines of WrapText(text, maxWidth)
RECURSIVE WrapLines(_, _)
WrapLines(lines, maxWidth) ==
    IF lines = <<>> THEN <<>>
    ELSE (IF TrimSpace(Head(lines)) = <<>> THEN <<<<>>>>
          ELSE wrapLine(Head(lines), maxWidth))
         \o WrapLines(Tail(lines), maxWidth)

\* WrapText wraps text to fit within maxWidth, preserving words when
\* possible
WrapText(text, maxWidth) ==
    WrapLines(Split(text, "\n"), IF maxWidth <= 0 THEN 80 ELSE maxWidth)

\* the styled branch of TruncateText over the runes of text[i..]
RECURSIVE TruncateRunes(_, _, _, _)
TruncateRunes(t, i, visibleCount, maxWidth) ==
    IF i > Len(t) THEN <<>>
    ELSE IF IsEscape(t[i])
    THEN <<t[i]>> \o TruncateRunes(t, i + 1, visibleCount, maxWidth)
    ELSE IF visibleCount >= maxWidth - 3
    THEN <<".", ".", ".", "R">>
    ELSE <<t[i]>> \o TruncateRunes(t, i + 1, visibleCount + 1, maxWidth)

\* TruncateText truncates text to maxWidth with ellipsis
TruncateText(text, maxWidth) ==
    IF maxWidth <= 3 THEN <<".", ".", ".">>
    ELSE IF Width(text) <= maxWidth THEN text
    ELSE IF ~HasEscape(text)
    THEN IF ByteLen(text) > maxWidth - 3
         THEN TakeBytes(text, maxWidth - 3) \o <<".", ".", ".">>
         ELSE text
    ELSE TruncateRunes(text, 1, 0, maxWidth)

(* ---------------------------------------------------------------------- *)
(* Markdown renderer. Colours are escape sequences around the pieces and  *)
(* take no cell: they are left out. "+" stands for the corners and        *)
(* junctions of a box, "-" for its horizontal rule and "|" for its        *)
(* vertical rule and "~" for the backquote of a code fence. Cells and     *)
(* code lines are ASCII.                                                  *)
(* ---------------------------------------------------------------------- *)

\* strings.HasPrefix
HasPrefix(t, p) == Len(t) >= Len(p) /\ SubSeq(t, 1, Len(p)) = p

\* strings.Repeat(s, count) for a text of one character
Repeat(ch, count) == [i \in 1..count |-> ch]

\* the texts of a sequence written one after the other
RECURSIVE Concat(_)
Concat(ts) == IF ts = <<>> THEN <<>> ELSE Head(ts) \o Concat(Tail(ts))

isTableRow(line) ==
    LET trimmed == TrimSpace(line)
    IN  trimmed # <<>> /\ Head(trimmed) = "|" /\ trimmed[Len(trimmed)] = "|"

isTableSeparator(line) ==
    LET trimmed == TrimSpace(line)
    IN  /\ trimmed # <<>> /\ Head(trimmed) = "|"
        /\ \A i \in 1..Len(trimmed) : trimmed[i] \in {"|", "-", ":", " "}

parseTableRow(line) ==
    LET trimmed == TrimSpace(line)
        t1      == IF HasPrefix(trimmed, <<"|">>) THEN Tail(trimmed)
                   ELSE trimmed
        t2      == IF t1 # <<>> /\ t1[Len(t1)] = "|"
                   THEN SubSeq(t1, 1, Len(t1) - 1) ELSE t1
        cells   == Split(t2, "|")
    IN  [i \in 1..Len(cells) |-> TrimSpace(cells[i])]

truncateCell(text, maxLen) ==
    IF Len(text) <= maxLen THEN text
    ELSE IF maxLen <= 3 THEN <<".", ".", ".">>
    ELSE SubSeq(text, 1, maxLen - 3) \o <<".", ".", ".">>

padCenter(text, w) ==
    IF Len(text) >= w THEN text
    ELSE LET leftPad  == GoDiv(w - Len(text), 2)
             rightPad == w - Len(text) - leftPad
         IN  Repeat(" ", leftPad) \o text \o Repeat(" ", rightPad)

\* the data rows of renderTable: the lines after the second that are no
\* separator, parsed and brought to numCols cells
dataRows(lines, numCols) ==
    LET rows == SelectSeq(SubSeq(lines, 3, Len(lines)),
                          LAMBDA l : ~isTableSeparator(l))
    IN  [k \in 1..Len(rows) |->
            [i \in 1..numCols |->
                IF i <= Len(parseTableRow(rows[k]))
                THEN parseTableRow(rows[k])[i] ELSE <<>>]]

\* the column widths of renderTable
colWidths(header, rows, maxWidth) ==
    LET numCols     == Len(header)
        totalWidth  == numCols + 1
        maxColWidth == max(GoDiv(maxWidth - totalWidth, numCols), 8)
        content(i)  == LET lens == {Len(header[i])}
                                   \cup {Len(rows[k][i]) : k \in 1..Len(rows)}
                       IN  CHOOSE n \in lens : \A m \in lens : m <= n
    IN  [i \in 1..numCols |-> max(min(content(i) + 2, maxColWidth), 5)]

\* a border of renderTable: one rule per column, junctions between them
tableBorder(cw) ==
    <<"+">>
    \o Concat([i \in 1..Len(cw) |->
                  Repeat("-", cw[i]) \o IF i < Len(cw) THEN <<"+">> ELSE <<>>])
    \o <<"+">>

\* a row of renderTable: each cell truncated and centred in its column
tableRow(cells, cw) ==
    <<"|">>
    \o Concat([i \in 1..Len(cw) |->
                  padCenter(truncateCell(cells[i], cw[i] - 2), cw[i])
                  \o IF i < Len(cw) THEN <<"|">> ELSE <<>>])
    \o <<"|">>

\* the lines of renderTable(lines, maxWidth)
renderTable(lines, maxWidth) ==
    IF Len(lines) < 2 THEN <<>>
    ELSE LET header == parseTableRow(lines[1])
             rows   == dataRows(lines, Len(header))
             cw     == colWidths(header, rows, maxWidth)
         IN  <<tableBorder(cw), tableRow(header, cw), tableBorder(cw)>>
             \o [k \in 1..Len(rows) |-> tableRow(rows[k], cw)]
             \o <<tableBorder(cw)>>

\* renderLine: the element a line outside a code block is rendered as;
\* the inline formatting and the wrapped text are left out
renderLine(line, maxWidth) ==
    [style |-> IF \E p \in {<<"#", " ">>, <<"#", "#", " ">>,
                            <<"#", "#", "#", " ">>,
                            <<"#", "#", "#", "#", " ">>} : HasPrefix(line, p)
               THEN "header"
               ELSE IF HasPrefix(line, <<">", " ">>) THEN "blockquote"
               ELSE IF line = <<"-", "-", "-">> THEN "rule"
               ELSE IF HasPrefix(line, <<"-", " ">>) THEN "list"
               ELSE "paragraph",
     text  |-> line]

\* a slice or strings.Repeat of renderLine is out of range, or the hard
\* split of wrapText has the step 0
renderLinePanics(line, maxWidth) ==
    LET cut(p, keep, n) ==
            /\ HasPrefix(line, p)
            /\ Len(line) - Len(p) > keep
            /\ SlicePanics(SubSeq(line, Len(p) + 1, Len(line)), n)
    IN  \/ cut(<<"#", "#", "#", "#", " ">>, maxWidth - 4, maxWidth - 7)
        \/ cut(<<"#", "#", "#", " ">>, maxWidth - 4, maxWidth - 7)
        \/ cut(<<"#", "#", " ">>, maxWidth - 4, maxWidth - 7)
        \/ cut(<<"#", " ">>, maxWidth - 8, maxWidth - 11)
        \/ line = <<"-", "-", "-">> /\ RepeatPanics(min(maxWidth, 44))
        \/ HasPrefix(line, <<">", " ">>) /\ maxWidth - 4 = 1
                                        /\ Len(line) - 2 > 1
        \/ HasPrefix(line, <<"-", " ">>) /\ maxWidth - 6 = 1
                                        /\ Len(line) - 2 > 1

\* a line inside a code block rendered as a line outside of one
codeLineAsMarkdown(line, cw) == renderLine(line, cw)

\* a line of RenderStreaming inside a code block: truncated, never wrapped
codeLine(line, cw) ==
    [style |-> "code",
     text  |-> IF Len(line) > cw - 4
               THEN SubSeq(line, 1, cw - 7) \o <<".", ".", ".">>
               ELSE line]

IsFence(line) == HasPrefix(line, <<"~", "~", "~">>)

\* the loop of RenderStreaming over lines[i..]
RECURSIVE StreamLines(_, _, _, _)
StreamLines(lines, i, inCodeBlock, cw) ==
    IF i > Len(lines) THEN <<>>
    ELSE IF IsFence(lines[i])
    THEN <<[style |-> IF inCodeBlock THEN "close" ELSE "open",
            text  |-> SubSeq(lines[i], 4, Len(lines[i]))]>>
         \o StreamLines(lines, i + 1, ~inCodeBlock, cw)
    ELSE <<IF inCodeBlock THEN codeLine(lines[i], cw)
           ELSE renderLine(lines[i], cw)>>
         \o StreamLines(lines, i + 1, inCodeBlock, cw)

\* RenderStreaming renders partial markdown (for streaming): one rendered
\* element for each line of the text
RenderStreaming(text, maxWidth) ==
    StreamLines(Split(text, "\n"), 1, FALSE, maxWidth - 4)

\* a slice or strings.Repeat of RenderStreaming is out of range
RenderStreamingPanics(text, maxWidth) ==
    LET lines == Split(text, "\n")
        out   == RenderStreaming(text, maxWidth)
        cw    == maxWidth - 4
    IN  \E i \in 1..Len(lines) :
           \/ out[i].style = "close" /\ RepeatPanics(min(cw, 34))
           \/ out[i].style = "code" /\ Len(lines[i]) > cw - 4
                                    /\ SlicePanics(lines[i], cw - 7)
           \/ out[i].style \notin {"open", "close", "code"}
              /\ renderLinePanics(lines[i], cw)

(* ---------------------------------------------------------------------- *)
(* SpecUI: the same program with the view shortcuts next to one stream:   *)
(* one chat submission, one byte, an upstream that answers the request.   *)
(* ---------------------------------------------------------------------- *)

\* Enter would reach sendChatMessage
SubmitsChat ==
    /\ ~isStreaming
    /\ TrimSpace(input) # <<>>
    /\ ~HasSlashPrefix(TrimSpace(input))

NextUI ==
    \/ \E s \in Streams : WorkerCallOK(s)
    \/ \E s \in Streams :
          SumOver(nEmit, Streams) < UIFrags /\ WorkerReadByte(s)
    \/ \E s \in Streams : WorkerReadEOF(s)
    \/ \E s \in Streams : WorkerSend(s)
    \/ \E s \in Streams : WorkerSendCancelled(s)
    \/ \E s \in Streams : ListenChunk(s)
    \/ \E s \in Streams : ListenClosed(s)
    \/ KeyCtrlC
    \/ KeyCtrlQ
    \/ (SubmitsChat => nStreams < UIStreams) /\ KeyEnter
    \/ KeyEsc
    \/ KeyCtrlL
    \/ KeyCtrlH
    \/ KeyCtrlA
    \/ KeyCtrlP
    \/ KeyCtrlR
    \/ KeyCtrlE
    \/ KeyCtrlW
    \/ \E text \in UITexts : KeyPaste(text)
    \/ \E m \in BagToSet(msgs) : DeliverChunk(m)
    \/ \E m \in BagToSet(msgs) : DeliverDone(m)
    \/ DeliverQuit
    \/ Disconnect

SpecUI == InitSession /\ [][NextUI]_vars

(* ---------------------------------------------------------------------- *)
(* SpecStreamLive: the session of SpecSession that is never ended: chat   *)
(* submissions, Escape and the stream events, with an AI call whose every *)
(* step returns, commands that run and an event loop that handles every   *)
(* message.                                                               *)
(* ---------------------------------------------------------------------- *)

NextStream ==
    \/ \E s \in Streams : WorkerCallOK(s)
    \/ \E s \in Streams : WorkerCallFail(s)
    \/ \E s \in Streams : WorkerReadByte(s)
    \/ \E s \in Streams : WorkerReadEOF(s)
    \/ \E s \in Streams : WorkerReadFail(s)
    \/ \E s \in Streams : WorkerSend(s)
    \/ \E s \in Streams : WorkerSendCancelled(s)
    \/ \E s \in Streams : ListenChunk(s)
    \/ \E s \in Streams : ListenClosed(s)
    \/ KeyEnter
    \/ KeyEsc
    \/ KeyPaste(TextHi)
    \/ \E m \in BagToSet(msgs) : DeliverChunk(m)
    \/ \E m \in BagToSet(msgs) : DeliverDone(m)

\* the goroutine of sendChatMessage and the commands are scheduled, the
\* HTTP call and every read of the body return, and Update is called for
\* every message sent to the program
StreamFairness ==
    /\ \A s \in Streams :
          /\ WF_vars(WorkerCallOK(s) \/ WorkerCallFail(s))
          /\ WF_vars(WorkerReadByte(s) \/ WorkerReadEOF(s)
                                      \/ WorkerReadFail(s))
          /\ WF_vars(WorkerSend(s) \/ WorkerSendCancelled(s))
          /\ WF_vars(ListenChunk(s))
          /\ WF_vars(ListenClosed(s))
    /\ WF_vars(\E m \in BagToSet(msgs) : DeliverChunk(m))
    /\ WF_vars(\E m \in BagToSet(msgs) : DeliverDone(m))

SpecStreamLive == InitSession /\ [][NextStream]_vars /\ StreamFairness

(* ---------------------------------------------------------------------- *)
(* SpecRender: SpecUI with terminal resizes, to a width whose markdown    *)
(* width SetWidth rejects (25) and to one it accepts (100).               *)
(* ---------------------------------------------------------------------- *)

RenderWidths == {25, 100}

NextRender ==
    \/ NextUI
    \/ \E w \in RenderWidths : WindowSize(w)

SpecRender == InitSession /\ [][NextRender]_vars

(* ---------------------------------------------------------------------- *)
(* SpecKeys: the same program with every key, shortcut, digit and slash   *)
(* command, and no chat submission.                                       *)
(* ---------------------------------------------------------------------- *)

NextKeys ==
    \/ KeyCtrlC
    \/ KeyCtrlQ
    \/ ~SubmitsChat /\ KeyEnter
    \/ KeyEsc
    \/ KeyCtrlL
    \/ KeyCtrlH
    \/ KeyCtrlA
    \/ KeyCtrlP
    \/ KeyCtrlR
    \/ KeyCtrlE
    \/ KeyCtrlW
    \/ \E k \in DigitKeys : KeyDigit(k)
    \/ \E text \in CommandTexts : KeyPaste(text)
    \/ DeliverQuit
    \/ Disconnect

SpecKeys == InitSession /\ [][NextKeys]_vars

\* the timer of quitAfter fires and the program handles its QuitMsg
SpecUILive == SpecUI /\ WF_vars(DeliverQuit)

(* ---------------------------------------------------------------------- *)
(* SpecView: the keys and commands of SpecKeys with terminal resizes; a   *)
(* panic while rendering ends the program.                                *)
(* ---------------------------------------------------------------------- *)

\* terminal widths a window-change request delivers
Widths == {1, 11, 12, 24, 25, 100}

\* a panic in Update or View: the program ends with it
Panic ==
    /\ prog = "running"
    /\ Panics
    /\ prog' = "panic"
    /\ msgs' = EmptyBag
    /\ Dropped
    /\ UNCHANGED listeners
    /\ UNCHANGED <<admVars, layVars, pipeVars>>

NextView ==
    \/ ~Panics /\ KeyCtrlC
    \/ ~Panics /\ KeyCtrlQ
    \/ ~Panics /\ ~SubmitsChat /\ KeyEnter
    \/ ~Panics /\ KeyEsc
    \/ ~Panics /\ KeyCtrlL
    \/ ~Panics /\ KeyCtrlH
    \/ ~Panics /\ KeyCtrlA
    \/ ~Panics /\ KeyCtrlP
    \/ ~Panics /\ KeyCtrlR
    \/ ~Panics /\ KeyCtrlE
    \/ ~Panics /\ KeyCtrlW
    \/ ~Panics /\ \E k \in DigitKeys : KeyDigit(k)
    \/ ~Panics /\ \E text \in CommandTexts : KeyPaste(text)
    \/ ~Panics /\ \E w \in Widths : WindowSize(w)
    \/ ~Panics /\ DeliverQuit
    \/ ~Panics /\ Disconnect
    \/ Panic

SpecView == InitSession /\ [][NextView]_vars

(* ---------------------------------------------------------------------- *)
(* SpecText: one call of a function of the text layout engine or of the   *)
(* markdown renderer on a text and a width; no session is involved.       *)
(* ---------------------------------------------------------------------- *)

\* "abcd ef": a word to hard-split, followed by a word
TextHardSplit == <<"a", "b", "c", "d", " ", "e", "f">>
TextTwoWords == <<"a", "b", " ", "c", "d">>
TextThreeWords == <<"a", " ", "b", "c", " ", "d", "e", "f">>
TextLongWord == <<"a", "b", "c", "d", "e", "f", "g", "h">>
\* two paragraphs around a blank line
TextParagraphs ==
    <<"a", "b", " ", "c", "\n", " ", "\n", "d", "e", "f", "g">>
TextStyled == <<"S", "a", "b", "c", "R", "d", "e">>
TextStyledWide == <<"S", "W", "W", "W", "R">>
TextWide == <<"W", "W", "W">>
\* | a | b | over | 1 | 2 |
TextTable2 ==
    <<"|", " ", "a", " ", "|", " ", "b", " ", "|", "\n",
      "|", "-", "|", "-", "|", "\n",
      "|", " ", "1", " ", "|", " ", "2", " ", "|">>
TextTable4 ==
    <<"|", "a", "|", "b", "|", "c", "|", "d", "|", "\n",
      "|", "-", "|", "-", "|", "-", "|", "-", "|", "\n",
      "|", "1", "|", "2", "|", "3", "|", "4", "|">>
\* a cell longer than its column may be
TextTableLong ==
    <<"|", "a", "b", "c", "d", "e", "f", "g", "h", "i", "j", "|", "b", "|",
      "\n", "|", "-", "|", "-", "|", "\n", "|", "1", "|", "2", "|">>
\* a line, a fence that is never closed, a line and a header
TextOpenFence ==
    <<"a", "\n", "~", "~", "~", "g", "o", "\n", "b", "\n", "#", " ", "c">>
TextClosedFence ==
    <<"~", "~", "~", "\n", "b", "\n", "~", "~", "~", "\n", "-", " ", "c">>
\* an open fence and a code line of 14 characters
TextLongCode ==
    <<"~", "~", "~", "\n", "a", "b", "c", "d", "e", "f", "g", "h", "i", "j",
      "k", "l", "m", "n">>

LayoutTexts ==
    {TextHardSplit, TextTwoWords, TextThreeWords, TextLongWord,
     TextParagraphs, TextStyled, TextStyledWide, TextWide, TextTable2,
     TextTable4, TextTableLong, TextOpenFence, TextClosedFence, TextLongCode}

LayoutWidths == {1, 2, 3, 4, 5, 6, 20, 24}

InitText ==
    /\ counts = NewCounts
    /\ maxPerIP = maxSessionsPerIP
    /\ CallsIdle
    /\ HandlersIdle
    /\ NewSession
    /\ lFn = "none"
    /\ lText \in LayoutTexts
    /\ lWidth \in LayoutWidths
    /\ lOut = <<>>

\* the call returns out, or ends as how says
Returns(fn, how, out) ==
    /\ lFn' = IF how = "" THEN fn ELSE fn \o ":" \o how
    /\ lOut' = IF how = "" THEN out ELSE <<>>
    /\ UNCHANGED <<lText, lWidth>>
    /\ UNCHANGED <<admVars, sesVars>>

\* plain text with wide runes is left out: wrapPlainLine cuts it at bytes
CallWrapText ==
    /\ lFn = "none"
    /\ HasEscape(lText) \/ \A i \in 1..Len(lText) : lText[i] # "W"
    /\ Returns("WrapText",
               IF WrapNeverEnds(lText, lWidth) THEN "spinning" ELSE "",
               WrapText(lText, lWidth))

CallTruncateText ==
    /\ lFn = "none"
    /\ \A i \in 1..Len(lText) : lText[i] # "\n"
    /\ Returns("TruncateText", "", TruncateText(lText, lWidth))

\* Render hands a table to renderTable with the content width of the
\* renderer, whose width is the one SetWidth accepted
CallRenderTable ==
    /\ lFn = "none"
    /\ \A i \in 1..Len(Split(lText, "\n")) :
          isTableRow(Split(lText, "\n")[i])
    /\ Len(Split(lText, "\n")) >= 2
    /\ isTableSeparator(Split(lText, "\n")[2])
    /\ Returns("renderTable", "",
               renderTable(Split(lText, "\n"), SetWidth(80, lWidth) - 4))

CallRenderStreaming ==
    /\ lFn = "none"
    /\ ~HasEscape(lText)
    /\ Returns("RenderStreaming",
               IF RenderStreamingPanics(lText, SetWidth(80, lWidth))
               THEN "panic" ELSE "",
               RenderStreaming(lText, SetWidth(80, lWidth)))

NextText ==
    \/ CallWrapText
    \/ CallTruncateText
    \/ CallRenderTable
    \/ CallRenderStreaming

SpecText == InitText /\ [][NextText]_vars

(* ---------------------------------------------------------------------- *)
(* Admission controller: properties                                       *)
(* ---------------------------------------------------------------------- *)

\* C1: under every interleaving of concurrent Acquire and Release calls the
\* active-session count recorded for an address never exceeds the limit.
C1_CountWithinLimit ==
    \A ip \in DOMAIN counts : counts[ip] <= maxPerIP

\* C7: Acquire returns false and leaves the registry unchanged when the
\* address holds maxPerIP slots, otherwise it adds exactly one to that
\* address and returns true; with no Release, attempt n of an address is
\* admitted exactly when n <= maxPerIP (of six attempts the sixth fails).
C7_AcquireContract ==
    call.op = "Acquire" =>
        LET ip     == IPKey(call.addr)
            before == Count(call.pre, ip)
        IN  /\ before >= maxPerIP => ~call.ok /\ counts = call.pre
            /\ before < maxPerIP =>
                 /\ call.ok
                 /\ Count(counts, ip) = before + 1
                 /\ \A k \in IPs \ {ip} : Count(counts, k) = Count(call.pre, k)
            /\ nRel[ip] = 0 => (call.ok <=> nAcq[ip] <= maxSessionsPerIP)

\* the sixth attempt of an address that never released is rejected
C7_Witness ==
    /\ call.op = "Acquire"
    /\ ~call.ok
    /\ nAcq[IPKey(call.addr)] = maxSessionsPerIP + 1
    /\ nRel[IPKey(call.addr)] = 0
    /\ counts = call.pre

\* C8: Release decrements without going below zero, no entry of the
\* registry ever has count zero (or less), and Release of an address
\* without an entry changes nothing.
C8_ReleaseContract ==
    /\ \A ip \in DOMAIN counts : counts[ip] > 0
    /\ call.op = "Release" =>
        LET ip     == IPKey(call.addr)
            before == Count(call.pre, ip)
        IN  /\ Count(counts, ip) = (IF before > 0 THEN before - 1 ELSE 0)
            /\ \A k \in IPs \ {ip} : Count(counts, k) = Count(call.pre, k)
            /\ ip \notin DOMAIN call.pre => counts = call.pre

\* a Release of an address without an entry, after another address went
\* back to zero and lost its entry
C8_Witness ==
    /\ call.op = "Release"
    /\ IPKey(call.addr) \notin DOMAIN call.pre
    /\ \E k \in IPs \ {IPKey(call.addr)} :
          nAcq[k] > 0 /\ nRel[k] > 0 /\ k \notin DOMAIN counts

\* C9: every admitted connection releases its slot exactly once when its
\* session handler returns, so whenever no Acquire or Release is in
\* progress the count of an address equals its live admitted sessions.
C9_CountEqualsLive ==
    /\ \A c \in Conns : hpc[c] = "done" => hout[c].releases = 1
    /\ (~crashed /\ \A c \in Conns : ~InCall(c)) =>
          \A ip \in IPs : Count(counts, ip) = Cardinality(Live(ip))

RejectedOut == [wrote |-> TRUE, exited |-> TRUE, invoked |-> FALSE,
                acquires |-> 1, releases |-> 0]

\* C10: a connection whose Acquire fails gets the rejection message and
\* the exit at once, its inner handler is never invoked, it makes no
\* second Acquire and no Release, and it stays terminated.
C10_RejectIsFinal ==
    [][\A c \in Conns :
         /\ ( /\ hpc[c] = "acq_check"
              /\ hpc'[c] # "acq_check"
              /\ ~crashed'
              /\ Count(counts, IPKey(haddr[c])) >= maxPerIP )
            => hpc'[c] = "rejected" /\ hout'[c] = RejectedOut
         /\ hpc[c] = "rejected"
            => hpc'[c] = "rejected" /\ hout'[c] = RejectedOut]_vars

\* a rejected connection next to admitted ones of the same address
C10_Witness ==
    \E c \in Conns :
        /\ hpc[c] = "rejected"
        /\ hout[c] = RejectedOut
        /\ \E d \in Conns \ {c} : hpc[d] = "run" /\ haddr[d] = haddr[c]

\* a and b are the same up to and including their final ':'
DiffersOnlyInPort(a, b) ==
    \E n \in 1..Len(a) :
        /\ n <= Len(b)
        /\ a[n] = ":"
        /\ SubSeq(a, 1, n) = SubSeq(b, 1, n)
        /\ \A i \in (n + 1)..Len(a) : a[i] # ":"
        /\ \A i \in (n + 1)..Len(b) : b[i] # ":"

\* C11: the quota is keyed on the client IP: remote addresses that differ
\* only in the port after the final ':' resolve to one key, so an Acquire
\* or Release made for one of them moves the counter every one of them
\* sees, and Release resolves an address to the key Acquire used for it.
C11_KeyedOnIP ==
    /\ \A a, b \in RemoteAddrs :
          DiffersOnlyInPort(a, b) => IPKey(a) = IPKey(b)
    /\ \A k \in DOMAIN counts : \A a \in RemoteAddrs : k # a
    /\ \A b \in RemoteAddrs :
          DiffersOnlyInPort(call.addr, b) =>
              LET before == Count(call.pre, IPKey(b))
                  after  == Count(counts, IPKey(b))
              IN  /\ (call.op = "Acquire" /\ call.ok) => after = before + 1
                  /\ (call.op = "Release" /\ before > 0) => after = before - 1

\* a slot taken through one port is given back through another port of
\* the same IP, and the entry of that IP is gone
C11_Witness ==
    /\ call.op = "Release"
    /\ call.addr = <<"a", ":", "2">>
    /\ call.pre = Put(NewCounts, <<"a">>, 1)
    /\ counts = NewCounts
    /\ nAcq[<<"a">>] = 1
    /\ nRel[<<"a">>] = 1

(* ---------------------------------------------------------------------- *)
(* Streaming pipeline: properties                                         *)
(* ---------------------------------------------------------------------- *)

\* Update handles the StreamDoneMsg m in this step
HandlesDone(m) ==
    /\ prog = "running"
    /\ prog' = "running"
    /\ BagIn(m, msgs)
    /\ m.type = "done"
    /\ msgs' = Received(m)

\* Update handles Escape for the in-flight stream s in this step
HandlesEscape(s) ==
    /\ prog' = "running"
    /\ ~cancelled[s]
    /\ cancelled'[s]
    /\ msgs' = msgs

FromStream(content, s) == \E i \in 1..Len(content) : content[i].s = s

\* C2: once Escape has been processed for a stream (its token is triggered
\* and the session is not quitting), no fragment of that stream is appended
\* to the response buffer or to the chat history, and the buffer
\* accumulated up to the Escape becomes a finalized assistant message.
C2_NoFragmentAfterCancel ==
    [][\A s \in Streams :
         /\ (cancelled[s] /\ ~quitting /\ prog' = "running") =>
              /\ Len(chatResponse') = Len(chatResponse) + 1
                   => chatResponse'[Len(chatResponse')].s # s
              /\ Len(chatHistory') = Len(chatHistory) + 1
                   => \/ chatHistory'[Len(chatHistory')].content = chatResponse
                         /\ ~FromStream(chatResponse, s)
                      \/ chatHistory'[Len(chatHistory')].role = "user"
         /\ (HandlesEscape(s) /\ chatResponse # <<>>) =>
              chatHistory' = Append(chatHistory,
                                    ChatMessage("assistant", chatResponse))
      ]_vars

\* C3: when a stream ends with an error, the error becomes the error text
\* and the fragments received so far are kept as a finalized assistant
\* message.
C3_ErrorKeepsPartial ==
    [][\A m \in BagToSet(msgs) :
         (HandlesDone(m) /\ m.err # "") =>
             /\ errorMessage' = m.err
             /\ chatResponse # <<>> =>
                  chatHistory' = Append(chatHistory,
                                        ChatMessage("assistant", chatResponse))
      ]_vars

\* C4: when a stream that was never cancelled completes without error, the
\* response buffer holds exactly the fragments its producer emitted, in
\* emission order, and they become the finalized assistant message.
C4_CompleteStreamIntact ==
    [][\A m \in BagToSet(msgs) :
         (HandlesDone(m) /\ m.err = "" /\ ~cancelled[m.s]) =>
             /\ chatResponse = Tagged(Emitted(nEmit[m.s]), m.s)
             /\ nEmit[m.s] > 0 =>
                  chatHistory' = Append(chatHistory,
                      ChatMessage("assistant", Tagged(Emitted(nEmit[m.s]), m.s)))
      ]_vars

\* C5: the worker of a request always terminates; it is never left blocked
\* on a full fragment queue that nothing will drain and with a token that
\* nothing will trigger.
C5_WorkerNeverStuck ==
    \A s \in Streams :
        ~( /\ wpc[s] = "send"
           /\ Len(queue[s]) = ChanCap
           /\ ~cancelled[s]
           /\ listeners[s] = 0
           /\ prog # "running" )

\* C6: whenever the session has ended (quit input, disconnect, idle
\* timeout), the cancellation token of every stream still in flight has
\* been triggered.
C6_EndCancelsStream ==
    \A s \in Streams :
        (prog # "running" /\ wpc[s] \notin {"none", "done"}) => cancelled[s]

(* ---------------------------------------------------------------------- *)
(* Session state machine: properties                                      *)
(* ---------------------------------------------------------------------- *)

\* C12: once the session is quitting, no later input or asynchronous event
\* is processed: view, chat history, input buffer, response buffer and
\* streaming flag stay as they are and no new stream is started.
C12_QuittingAbsorbs ==
    [][(quitting /\ prog' = "running") =>
          /\ view' = view
          /\ chatHistory' = chatHistory
          /\ input' = input
          /\ chatResponse' = chatResponse
          /\ isStreaming' = isStreaming
          /\ nStreams' = nStreams
      ]_vars

\* the step is one of the explicit quit inputs
QuitInput ==
    /\ ~quitting
    /\ quitting'

\* C13: quitting is one-way: once a quit input (Ctrl+C, Ctrl+Q, /exit,
\* /quit, /q) has set the flag it is never cleared, every frame rendered
\* from then on is the farewell frame, the close signal is scheduled by the
\* quit input and reaches the transport after the delay.
C13_QuitIsOneWay ==
    /\ [][quitting => quitting']_vars
    /\ [](quitting => View = RenderQuitScreen)
    /\ [][QuitInput => Pending(TickMsg)' = Pending(TickMsg) + 1]_vars
    /\ []((quitting /\ prog = "running") => Pending(TickMsg) >= 1)
    /\ (quitting ~> prog # "running")

\* the program has ended on the QuitMsg that a quit input scheduled, the
\* flag still set and the farewell frame the one that renders
C13_Witness ==
    /\ quitting
    /\ prog = "quit"
    /\ View = RenderQuitScreen

\* C14: a session has at most one receive pending on a fragment queue at
\* any moment, and each fragment taken from a queue reaches the session as
\* exactly one event.
C14_OneReceivePending ==
    /\ [](prog = "running" => SumOver(listeners, Streams) <= 1)
    /\ [][\A s \in Streams :
            (prog = "running" /\ Len(queue'[s]) < Len(queue[s])) =>
                /\ queue'[s] = Tail(queue[s])
                /\ msgs' = msgs (+) SetToBag({ChunkMsg(Head(queue[s]), s)})
         ]_vars

\* C15: the fragment queue never holds more than its capacity; a producer
\* that finds it full stays blocked, fragment in hand, until the session
\* takes a fragment or the stream is cancelled; and no fragment is dropped:
\* the queue changes only by the consumer taking its head or by the
\* producer appending the fragment in hand, which it gives up only when
\* the stream is cancelled.
C15_BoundedQueueBlocks ==
    /\ [](\A s \in Streams : Len(queue[s]) <= ChanCap)
    /\ [][\A s \in Streams :
            /\ (wpc[s] = "send" /\ Len(queue[s]) = ChanCap /\ ~cancelled[s])
                 => /\ wpc'[s] = "send"
                    /\ nEmit'[s] = nEmit[s]
                    /\ queue'[s] \in {queue[s], Tail(queue[s])}
            /\ queue'[s] # queue[s]
                 => \/ /\ queue[s] # <<>>
                       /\ queue'[s] = Tail(queue[s])
                    \/ /\ wpc[s] = "send"
                       /\ queue'[s] = Append(queue[s], ByteAt(nEmit[s]))
            /\ (wpc[s] = "send" /\ wpc'[s] # "send")
                 => \/ queue'[s] = Append(queue[s], ByteAt(nEmit[s]))
                    \/ cancelled[s]
         ]_vars

\* a producer blocked on the full queue of a stream that is not cancelled,
\* while the session is still running and listening
C15_Witness ==
    \E s \in Streams :
        /\ wpc[s] = "send"
        /\ Len(queue[s]) = ChanCap
        /\ ~cancelled[s]
        /\ nEmit[s] = ChanCap + 1
        /\ prog = "running"
        /\ listeners[s] = 1

\* C16: a stream-completion event without error appends the non-empty
\* response buffer to the chat history as exactly one assistant message
\* and appends nothing when the buffer is empty; it clears the streaming
\* flag, empties the buffer and drops the queue references.
C16_DoneFinalizes ==
    [][\A m \in BagToSet(msgs) :
         (HandlesDone(m) /\ m.err = "") =>
             /\ chatResponse # <<>> =>
                  chatHistory' = Append(chatHistory,
                                        ChatMessage("assistant", chatResponse))
             /\ chatResponse = <<>> => chatHistory' = chatHistory
             /\ isStreaming' = FALSE
             /\ chatResponse' = <<>>
             /\ chunkChan' = 0
      ]_vars

\* the only stream of the session, never cancelled, has completed without
\* error and its two fragments are the assistant message after the user's
C16_Witness ==
    /\ prog = "running"
    /\ ~quitting
    /\ nStreams = 1
    /\ ~cancelled[1]
    /\ errorMessage = ""
    /\ chunkChan = 0
    /\ ~isStreaming
    /\ chatResponse = <<>>
    /\ chatHistory = << ChatMessage("user", Tagged(TextHi, 0)),
                        ChatMessage("assistant", Tagged(Emitted(2), 1)) >>

\* C17: Escape while the streaming flag is set cancels the stream in
\* flight, clears the flag and finalizes the non-empty partial response as
\* an assistant message, and leaves the view alone; Escape while idle sets
\* the view to Chat and changes nothing else, so nothing at all when the
\* view is Chat already.
C17_EscapeContract ==
    [][KeyEsc =>
         IF isStreaming
         THEN /\ nStreams > 0
              /\ cancelled'[nStreams]
              /\ \A s \in Streams \ {nStreams} : cancelled'[s] = cancelled[s]
              /\ ~isStreaming'
              /\ view' = view
              /\ chatResponse # <<>> =>
                   /\ chatHistory' = Append(chatHistory,
                                         ChatMessage("assistant", chatResponse))
                   /\ chatResponse' = <<>>
              /\ chatResponse = <<>> => UNCHANGED <<chatHistory, chatResponse>>
         ELSE /\ view' = "Chat"
              /\ UNCHANGED <<input, errorMessage, statusMessage, quitting>>
              /\ UNCHANGED <<navVars, chatVars, pipeVars, rtVars>>
      ]_vars

\* Escape has aborted a stream while the help view was showing: the view
\* is still Help and the one fragment received is the assistant message
C17_Witness ==
    /\ prog = "running"
    /\ ~quitting
    /\ view = "Help"
    /\ nStreams = 1
    /\ cancelled[1]
    /\ ~isStreaming
    /\ chatResponse = <<>>
    /\ chatHistory = << ChatMessage("user", Tagged(TextHi, 0)),
                        ChatMessage("assistant", Tagged(Emitted(1), 1)) >>

\* the error texts a stream can leave in errorMessage
StreamErrors == {"ctx", "rate", "io"}

\* errorMessage was set by a bad slash command
CommandError == errorMessage # "" /\ errorMessage \notin StreamErrors

\* the step is a shortcut-key navigation
Navigates ==
    KeyCtrlH \/ KeyCtrlA \/ KeyCtrlP \/ KeyCtrlR \/ KeyCtrlE \/ KeyCtrlW

\* the step is a numeric project selection
SelectsProject ==
    \E k \in 1..Len(Digits) : KeyDigit(k) /\ view' = "ProjectDetail"

\* the step submits a slash command that succeeds, or a chat message
SubmitsWell ==
    /\ KeyEnter
    /\ ~isStreaming
    /\ TrimSpace(input) # <<>>
    /\ (errorMessage' = "" \/ errorMessage' \in StreamErrors)

\* C18: the error of a bad slash command is cleared by the next successful
\* action, whichever it is: a slash command that succeeds, a shortcut-key
\* navigation, a numeric project selection or a chat submission.
C18_ErrorClearedByAction ==
    [][(CommandError /\ (SubmitsWell \/ Navigates \/ SelectsProject)) =>
          errorMessage' = ""]_vars

\* the words of the line that Enter submits
Submitted == Fields(TrimSpace(input))

\* Enter submits /open (or /o, in any letter case) with an argument
SubmitsOpen ==
    /\ KeyEnter
    /\ ~isStreaming
    /\ Len(Submitted) >= 2
    /\ Str(ToLower(Submitted[1])) \in {"/open", "/o"}

\* C19: /open <id> with an id that matches no project leaves the view as
\* it was and sets the error 'Project not found: <id>'; with an id that
\* matches a project it sets the view to ProjectDetail for that project.
C19_OpenProject ==
    [][SubmitsOpen =>
         LET id == Str(Submitted[2])
         IN  IF \E i \in 1..Len(ProjectIDs) : ProjectIDs[i] = id
             THEN /\ view' = "ProjectDetail"
                  /\ selectedProj' = id
                  /\ errorMessage' = ""
             ELSE /\ view' = view
                  /\ errorMessage' = "Project not found: " \o id
      ]_vars

\* /open of an unknown id was submitted while the help view was showing
C19_Witness ==
    /\ prog = "running"
    /\ ~quitting
    /\ view = "Help"
    /\ input = <<>>
    /\ errorMessage = "Project not found: z"

\* the names handleSlashCommand knows
KnownCommands ==
    {"/help", "/h", "/?", "/about", "/bio", "/projects", "/p", "/open", "/o",
     "/resume", "/cv", "/r", "/exp", "/experience", "/work", "/clear", "/cls",
     "/exit", "/quit", "/q", "/back", "/b"}

\* Enter submits a slash command that handleSlashCommand does not know
SubmitsUnknown ==
    /\ KeyEnter
    /\ ~isStreaming
    /\ HasSlashPrefix(TrimSpace(input))
    /\ Str(ToLower(Submitted[1])) \notin KnownCommands

\* C20: submitting an unknown slash command sets the error
\* 'Unknown command: <command>' and changes nothing else of the session:
\* view, chat history, selected project and streaming state stay.
C20_UnknownCommand ==
    [][SubmitsUnknown =>
         /\ errorMessage' = "Unknown command: " \o Str(ToLower(Submitted[1]))
         /\ UNCHANGED <<view, quitting, selectedProj>>
         /\ UNCHANGED <<chatVars, pipeVars, rtVars>>
      ]_vars

\* an unknown command was submitted while the projects view was showing
C20_Witness ==
    /\ prog = "running"
    /\ ~quitting
    /\ view = "Projects"
    /\ input = <<>>
    /\ errorMessage = "Unknown command: /zz"

\* the step is the handling of one of the six view shortcuts
Shortcut ==
    KeyCtrlH \/ KeyCtrlA \/ KeyCtrlP \/ KeyCtrlR \/ KeyCtrlE \/ KeyCtrlW

C22_DigitSelects ==
    [][\A k \in DigitKeys :
         KeyDigit(k) =>
           IF view = "Projects" /\ input = <<>> /\ k <= Len(ProjectIDs)
           THEN /\ selectedProj' = ProjectIDs[k]
                /\ view' = "ProjectDetail"
                /\ input' = <<>>
           ELSE UNCHANGED <<view, selectedProj>>
      ]_vars

\* digit 1 was pressed in the Projects view with an empty buffer (no command
\* of CommandTexts opens the first project): the first project is showing;
\* digit 3 pressed after it, in the ProjectDetail view, went to the input
C22_Witness ==
    /\ prog = "running"
    /\ ~quitting
    /\ view = "ProjectDetail"
    /\ selectedProj = ProjectIDs[1]
    /\ input = <<"3">>

\* the texts handleSlashCommand leaves in errorMessage
CommandErrors ==
    {"Usage: /open <project-id>"}
    \cup {"Project not found: " \o Str(t) : t \in {<<"z">>}}
    \cup {"Unknown command: " \o Str(t) : t \in {<<"/", "z", "z">>}}

\* C23: Enter while idle empties the input buffer and clears the status and
\* the error that were showing. The trimmed buffer decides what else it
\* does: empty, nothing else; starting with '/', slash-command handling (no
\* stream starts, no user message is added, the error is empty or the
\* command's own); any other text, a chat submission (the trimmed text
\* becomes the user message, the view is Chat, and exactly one new stream
\* starts, with its worker and its pending receive).
C23_EnterDispatch ==
    [][(KeyEnter /\ ~isStreaming) =>
         LET t == TrimSpace(input)
         IN  /\ input' = <<>>
             /\ statusMessage' = ""
             /\ IF t = <<>>
                THEN /\ errorMessage' = ""
                     /\ UNCHANGED <<view, quitting>>
                     /\ UNCHANGED <<navVars, chatVars, pipeVars, rtVars>>
                ELSE IF Head(t) = "/"
                THEN /\ errorMessage' \in {""} \cup CommandErrors
                     /\ chatHistory' \in {chatHistory, <<>>}
                     /\ UNCHANGED <<isStreaming, chatResponse, streamCancel,
                                    chunkChan>>
                     /\ UNCHANGED <<pipeVars, listeners>>
                ELSE /\ errorMessage' = ""
                     /\ view' = "Chat"
                     /\ chatHistory' =
                          Append(chatHistory, ChatMessage("user", Tagged(t, 0)))
                     /\ isStreaming'
                     /\ nStreams' = nStreams + 1
                     /\ wpc'[nStreams'] = "call"
                     /\ listeners'[nStreams'] = 1
                     /\ chunkChan' = nStreams'
                     /\ streamCancel' = nStreams'
      ]_vars

\* Enter was pressed on a chat text while idle: the buffer is empty, no
\* error shows, the user message is the trimmed text and its stream is in
\* flight and has delivered its fragment
C23_Witness ==
    /\ prog = "running"
    /\ ~quitting
    /\ input = <<>>
    /\ errorMessage = ""
    /\ isStreaming
    /\ nStreams = 1
    /\ chatHistory = << ChatMessage("user", Tagged(TextHi, 0)) >>
    /\ chatResponse = Tagged(Emitted(1), 1)

\* C24: whatever width a window-change event delivers (1 and up) and
\* whatever the session state, rendering the view on display, or the
\* farewell frame, completes: the program never ends in a panic.
C24_RenderCompletes == prog # "panic"

\* C25: every line WrapText produces for a width of at least 1 is at most
\* that many cells wide, also after a word that was hard-split
C25_WrapFits ==
    (lFn = "WrapText" /\ lWidth >= 1)
        => \A i \in 1..Len(lOut) : Width(lOut[i]) <= lWidth

\* the words of some lines, in order, without their escape sequences
Words(lines) ==
    Concat([i \in 1..Len(lines) |->
               Fields(SelectSeq(lines[i], LAMBDA ch : ~IsEscape(ch)))])

\* the pieces are the words, each whole or split into consecutive parts; a
\* "-" that ends a part is taken as the mark of the split
RECURSIVE SplitOnly(_, _)
SplitOnly(pieces, words) ==
    IF pieces = <<>> \/ words = <<>> THEN pieces = <<>> /\ words = <<>>
    ELSE LET p    == Head(pieces)
             w    == Head(words)
             part == IF HasPrefix(w, p) THEN p
                     ELSE IF p[Len(p)] = "-" THEN SubSeq(p, 1, Len(p) - 1)
                     ELSE p
         IN  /\ part # <<>>
             /\ HasPrefix(w, part)
             /\ IF part = w THEN SplitOnly(Tail(pieces), Tail(words))
                ELSE SplitOnly(Tail(pieces),
                               <<SubSeq(w, Len(part) + 1, Len(w))>>
                               \o Tail(words))

\* C26: the words of the lines WrapText produces are the words of the
\* input in their order: none is dropped, added, merged with another or
\* moved, and an over-long word is only split
C26_WrapKeepsWords ==
    lFn = "WrapText" => SplitOnly(Words(lOut), Words(Split(lText, "\n")))

\* C27: TruncateText returns a text at most w cells wide for every w above
\* 3, and the ellipsis alone for every w up to 3
C27_TruncateFits ==
    lFn = "TruncateText"
        => IF lWidth > 3 THEN Width(lOut) <= lWidth
           ELSE lOut = <<".", ".", ".">>

\* C28: no line of a rendered table is wider than the width the renderer
\* was given, and the table | a | b | over | 1 | 2 | is a box of two
\* columns: three borders, the header and one row, each with two cells
C28_TableFits ==
    lFn = "renderTable"
        => /\ \A i \in 1..Len(lOut) : Width(lOut[i]) <= SetWidth(80, lWidth)
           /\ lText = TextTable2
                => /\ Len(lOut) = 5
                   /\ \A i \in {2, 4} : Len(Split(lOut[i], "|")) = 4

\* C29: RenderStreaming ends without a panic, and when the text opens a
\* code fence that no later line closes, every line after the fence is
\* rendered as code
C29_OpenFenceIsCode ==
    /\ lFn # "RenderStreaming:panic"
    /\ lFn = "RenderStreaming"
         => LET lines == Split(lText, "\n")
            IN  /\ Len(lOut) = Len(lines)
                /\ \A k \in 1..Len(lines) :
                      ( /\ IsFence(lines[k])
                        /\ Cardinality({j \in 1..k : IsFence(lines[j])}) % 2 = 1
                        /\ \A j \in (k + 1)..Len(lines) : ~IsFence(lines[j]) )
                        => \A i \in (k + 1)..Len(lines) :
                              lOut[i].style = "code"

\* the text had a line, an open fence, and a line and a header behind it
C29_Witness ==
    /\ lFn = "RenderStreaming"
    /\ lText = TextOpenFence
    /\ lOut[4] = [style |-> "code", text |-> <<"#", " ", "c">>]

\* C30: after every processed event the content of the viewport is the
\* render of the current view, width, selected project, welcome flag,
\* chat history, streaming flag and response buffer
C30_ViewportFresh == [][prog' = "running" => viewport' = Content']_vars

C32_SubmitContract ==
    [][ /\ (KeyEnter /\ SubmitsChat)
           => /\ chatHistory' =
                    Append(chatHistory,
                           [role    |-> "user",
                            content |-> Tagged(TrimSpace(input), 0)])
              /\ isStreaming'
              /\ chatResponse' = <<>>
              /\ view' = "Chat"
              /\ nStreams' = nStreams + 1
              /\ wpc[nStreams'] = "none"
              /\ wpc' = [wpc EXCEPT ![nStreams'] = "call"]
        /\ ( /\ Len(chatHistory') > Len(chatHistory)
             /\ chatHistory'[Len(chatHistory')].role = "assistant" )
           => (KeyEsc \/ \E m \in BagToSet(msgs) : DeliverDone(m))
      ]_vars

\* the text was submitted and its worker has not called the client yet
C32_Witness ==
    /\ prog = "running"
    /\ isStreaming
    /\ view = "Chat"
    /\ Len(chatHistory) = 1
    /\ chatHistory[1].role = "user"
    /\ chatResponse = <<>>
    /\ wpc[1] = "call"

\* C33: a worker that ends closes the fragment queue, with its error in
\* the error slot exactly when it did not end at the end of the response;
\* the session handles the error of a stream only when no fragment of
\* that stream is left in the queue or in transit; a completion without
\* error sets no error text
C33_ErrorAfterFragments ==
    [][ /\ \A s \in Streams :
              (wpc[s] # "done" /\ wpc'[s] = "done")
                 => /\ chClosed'[s]
                    /\ (errSlot'[s] = "") <=> WorkerReadEOF(s)
        /\ \A m \in BagToSet(msgs) :
              HandlesDone(m)
                 => IF m.err # ""
                    THEN /\ queue[m.s] = <<>>
                         /\ \A c \in BagToSet(msgs) :
                               ~(c.type = "chunk" /\ c.s = m.s)
                    ELSE errorMessage' = errorMessage
      ]_vars

\* the most messages a bounded history may hold; sendChatMessage has no
\* such number, and a chat of two messages already exceeds this one
HistoryBound == 1

\* history := the messages of m.chatHistory[:len(m.chatHistory)-1], taken
\* after the new message was appended
HistoryFor(history) == SubSeq(history, 1, Len(history) - 1)

\* C34: the history handed to the client with a new message is bounded,
\* and it is the messages that preceded the new message, in their order,
\* without the new message
C34_HistoryHanded ==
    [][ (KeyEnter /\ SubmitsChat)
           => /\ HistoryFor(chatHistory') = chatHistory
              /\ Len(HistoryFor(chatHistory')) <= HistoryBound
      ]_vars

\* Update handles the stream message m of an earlier, cancelled stream in
\* this step, while a later stream is in flight
HandlesStale(m) ==
    /\ prog = "running"
    /\ prog' = "running"
    /\ m.type \in {"chunk", "done"}
    /\ m.s < nStreams
    /\ cancelled[m.s]
    /\ isStreaming
    /\ msgs' = Received(m)

\* C35: a fragment or a completion event of an earlier, cancelled stream
\* changes nothing of the later stream: not its response buffer, its
\* streaming flag, the error text or the queue the session listens to
C35_StaleEventsInert ==
    [][ \A m \in BagToSet(msgs) :
           HandlesStale(m)
              => /\ chatResponse' = chatResponse
                 /\ isStreaming'
                 /\ errorMessage' = errorMessage
                 /\ chunkChan' = chunkChan
      ]_vars

\* the worker of stream s has ended and no fragment of s waits in the
\* queue or in a message that Update has not handled
Settled(s) ==
    /\ wpc[s] = "done"
    /\ queue[s] = <<>>
    /\ \A m \in BagToSet(msgs) : ~(m.type = "chunk" /\ m.s = s)

\* C36: every submitted message reaches a final state: the streaming flag
\* is cleared again and, for every stream that Escape did not cancel, the
\* worker ends and every fragment it queued is handled by the session
C36_StreamSettles ==
    /\ isStreaming ~> ~isStreaming
    /\ \A s \in Streams :
          (wpc[s] # "none") ~> (Settled(s) \/ cancelled[s])

\* C37: every assistant message of the chat history comes directly after
\* a user message
C37_AnswerFollowsQuestion ==
    \A i \in 1..Len(chatHistory) :
        chatHistory[i].role = "assistant"
           => /\ i > 1
              /\ chatHistory[i - 1].role = "user"

\* C38: while the streaming flag is set, Enter changes neither the input
\* buffer nor the history, the view or the error text, and no step starts
\* a stream, so a stream is only ever started with the flag cleared
C38_EnterIgnoredWhileStreaming ==
    [][ isStreaming
          => /\ nStreams' = nStreams
             /\ KeyEnter => /\ input' = input
                            /\ chatHistory' = chatHistory
                            /\ view' = view
                            /\ errorMessage' = errorMessage
                            /\ streamCancel' = streamCancel
                            /\ chunkChan' = chunkChan
      ]_vars

C38_Witness ==
    /\ prog = "running"
    /\ ~quitting
    /\ isStreaming
    /\ nStreams = 1
    /\ TrimSpace(input) # <<>>

\* C39: WrapText returns for every text and every width of at least 1:
\* no call is left in the loop that hard-splits a word longer than the
\* width, because that loop advances on every iteration
C39_WrapTerminates ==
    lWidth >= 1 => lFn # "WrapText:spinning"

\* Enter submits /open without an argument or with an identifier that no
\* project has
OpenFails ==
    /\ KeyEnter
    /\ ~isStreaming
    /\ Len(Submitted) >= 1
    /\ Str(ToLower(Submitted[1])) \in {"/open", "/o"}
    /\ \/ Len(Submitted) = 1
       \/ GetProjectByID(Str(Submitted[2])) = 0

\* C40: a failed /open leaves the selected project as it was, and a
\* session that shows ProjectDetail goes on showing the same project
C40_FailedOpenKeepsProject ==
    [][OpenFails
         => /\ selectedProj' = selectedProj
            /\ view = "ProjectDetail"
                 => /\ view' = "ProjectDetail"
                    /\ viewport'.project = viewport.project
      ]_vars

====
